---- MODULE Spec2Model ----
(***************************************************************************)
(* A model of the reactive AMQP client runtime of tutorial/proton_events.py *)
(* (and of the places where its older sibling tutorial/proton_utils.py      *)
(* differs).  The module holds several state machines over one set of       *)
(* variables; each specification drives one of them and leaves the others  *)
(* idle:                                                                    *)
(*   SpecDlv      the dispatch of DELIVERY events of outgoing deliveries    *)
(*   SpecFlow     the flow controller on one link                          *)
(*   SpecHs       the handshaker on a connection, a session and a link     *)
(*   SpecBackoff  the reconnect policy                                      *)
(*   SpecLoop     the reactor with its timers, socket adapters and the     *)
(*                connector                                                 *)
(*   SpecTimers   the same reactor under an application that only          *)
(*                schedules timers                                          *)
(*   SpecUtils    the reactor of proton_utils.py                            *)
(*   SpecScope    the scoped dispatcher                                     *)
(*   SpecInj      the event injector and the threads that trigger it       *)
(*   SpecPair     the reactor with two plain connections                   *)
(*   SpecFd       the descriptors of the three kinds of selectable         *)
(*   SpecIn       the dispatch of DELIVERY events of incoming deliveries   *)
(*   SpecBlock    the blocking connection, its sender and its closes        *)
(*   SpecUrl      the parsing and printing of an address                    *)
(*   SpecUrls     the list of addresses a connection cycles through         *)
(*   SpecEv       the drain of the plain event source                       *)
(*   SpecWr       the output side of one socket adapter                     *)
(*   SpecQ        the sweep before select() of both reactors                *)
(*   SpecInjClose the event injector closed and removed while triggered     *)
(***************************************************************************)
EXTENDS Integers, Sequences, FiniteSets, TLC

VARIABLES
    \* ---- outgoing deliveries (SpecDlv)
    variant,        \* "events" (proton_events.py) or "utils" (proton_utils.py)
    autoSettle,     \* what the handler's auto_settle() returns
    ctx,            \* scope -> "none" | "H" | "other": the context attribute
    inChain,        \* the handler H is also one of the loop's dispatchers
    dlvs,           \* the sender's deliveries, a sequence of records
    dlv_collector,  \* queued DELIVERY events (delivery numbers)
    dlv_emitted     \* the DELIVERY events the engine has emitted so far

VARIABLES
    \* ---- one link under a flow controller (SpecFlow)
    fl_receiver,    \* link.is_receiver
    fl_first,       \* the flow controller precedes the consuming handler
    fl_lopen,       \* the link was opened locally
    fl_ropen,       \* the peer opened the link
    fl_credit,      \* link.credit
    fl_queued,      \* complete messages that arrived and were not yet read
    fl_inflight,    \* messages the peer sent that have not arrived whole
    fl_sent,        \* messages the peer has sent so far
    fl_collector,   \* queued events of the link
    fl_last         \* the type of the event dispatched last

VARIABLES
    \* ---- the handshaker (SpecHs)
    hs_local,       \* endpoint -> local half
    hs_remote,      \* endpoint -> remote half
    hs_collector,   \* queued endpoint events
    hs_calls,       \* endpoint -> open() and close() calls of the handshaker
    hs_app          \* endpoint -> the application opened or closed it itself

VARIABLES
    \* ---- the reconnect policy (SpecBackoff)
    bo_delay,       \* Backoff.delay, in tenths of a second
    bo_hist         \* the calls so far: what next() returned, or a reset()

VARIABLES
    \* ---- the reactor with its timers and the connector (SpecLoop)
    pc,             \* where the thread that calls run() stands
    abort,          \* SelectLoop._abort
    collector,      \* the collector's queue of events
    timers,         \* ScheduledEvents._events, the pending timers
    selectables,    \* SelectLoop.selectables, a list of adapter numbers
    sel,            \* every socket adapter made so far, by number
    conn,           \* connection -> its endpoint state and attributes
    now,            \* time.time(), in tenths of a second
    reading,        \* the adapters handed to select() for reading
    writing,        \* the adapters handed to select() for writing
    readable,       \* what select() reported readable, not yet served
    writable,       \* what select() reported writable, not yet served
    wait_until,     \* when the select() under way times out
    fired,          \* the timers dispatched so far, with the time of dispatch
    procStart,      \* when the process() under way was entered (0 if none is)
    overdue,        \* timers the last process() left behind though due at entry
    drainAbort,     \* abort() was called from a handler during process()
    startedEmpty,   \* run() was called with nothing to wait for
    waited,         \* select() was entered at least once
    thisCall        \* the call of process() under way (see NoCall)

VARIABLES
    \* ---- the scoped dispatcher (SpecScope)
    sc_variant,     \* "events" (proton_events.py) or "utils" (proton_utils.py)
    sc_ctx,         \* scope -> "none" | "plain" | "handler": its context
    sc_queue,       \* the categories of the queued events
    sc_log          \* the dispatched events with the calls made, in order

VARIABLES
    \* ---- the event injector (SpecInj)
    inj_queue,      \* EventInjector.queue: the events put and not yet got
    inj_pipe,       \* the bytes in the pipe
    inj_tpc,        \* trigger call -> "idle" | "put" | "done"
    inj_rpc,        \* where the reactor thread stands in its iteration
    inj_count,      \* trigger call -> how often its event was dispatched
    inj_age         \* trigger call -> iteration boundaries since it returned

VARIABLES
    \* ---- the descriptors of the selectables (SpecFd)
    fd_sel,         \* kind of selectable -> its flags, queue and descriptors
    fd_registered   \* the kinds of selectable in SelectLoop.selectables

VARIABLES
    \* ---- incoming deliveries (SpecIn)
    in_auto,        \* what auto_accept() returns
    in_calls,       \* how often the handler is invoked for one event
    in_dlvs,        \* the deliveries of the receiving link
    in_collector    \* the deliveries of the queued DELIVERY events

VARIABLES
    \* ---- the blocking sender (SpecBlock)
    bl_pc,          \* where the thread stands: in send_msg, in do_work, outside
    bl_dlvs,        \* the deliveries made by send_msg so far
    bl_collector,   \* the queued events of the blocking connection
    bl_sock,        \* the socket adapter: "up", "done" (both halves) or "removed"
    bl_op,          \* the blocking operation under way, or "none"
    bl_local,       \* endpoint -> the local half of its state
    bl_remote,      \* endpoint -> the remote half of its state
    bl_log,         \* the closes and removals handled: was the local half
                    \* active (the connection not cleanly closed), did it raise
    bl_rets         \* the close() calls that returned, with the state then

VARIABLES
    \* ---- addresses (SpecUrl)
    url_in,         \* the address string, a sequence of tokens
    url_parsed,     \* the Url made of it: scheme, user, password, host, port
    url_out,        \* str() of that Url, a sequence of tokens
    url_stage       \* "given" | "parsed" | "printed"

VARIABLES
    \* ---- address lists (SpecUrls)
    urls_values,    \* Urls.values: the hosts of the Url objects, in order
    urls_i,         \* Urls.i: how many values the list iterator has yielded
    urls_ret,       \* what the calls of next() returned, in order
    urls_unpacked   \* what 'host, port = ...' made of each returned value

VARIABLES
    \* ---- the plain event source (SpecEv)
    ev_pc,          \* "out" of process(), in "process", "returned" or "raised"
    ev_collector,   \* the collector: the events emitted and not yet popped
    ev_emitted,     \* how many events the engine has emitted; the n-th is n
    ev_during,      \* how many of them handlers made it emit during a drain
    ev_raises,      \* how many times a handler has raised
    ev_d,           \* the dispatcher the event under dispatch goes to next
    ev_log          \* the dispatcher calls made, in order

VARIABLES
    \* ---- the output side of one socket adapter (SpecWr)
    wr_stream,      \* how many bytes the transport has produced; the n-th is n
    wr_pending,     \* transport output not yet popped, as peek() shows it
    wr_head,        \* "open", or "closed": pending() is negative once drained
    wr_sent,        \* the bytes the socket has accepted, in order
    wr_done,        \* Selectable.write_done
    wr_last,        \* the last writable(): offered, accepted, popped, failed
    wr_shorts       \* how many sends were short

VARIABLES
    \* ---- the sweep before select(), of both reactors (SpecQ)
    q_variant,      \* "events" (proton_events.py) or "utils" (proton_utils.py)
    q_pc,           \* "process", "sweep", "select", "io" or "returned"
    q_sel,          \* every selectable ever made, by number
    q_selectables,  \* SelectLoop.selectables: the numbers registered, in order
    q_reading,      \* the reading list handed to select()
    q_writing,      \* the writing list handed to select()
    q_found,        \* how many closed selectables the last pass found
    q_added         \* the selectables removed() handlers added in this phase

VARIABLES
    \* ---- the close and the removal of the event injector (SpecInjClose)
    ic_closed,      \* EventInjector._closed
    ic_state,       \* "registered", "marked" (in the sweep's closed list)
                    \* or "removed"
    ic_seen         \* the trigger calls that had put when closed() was true

dlvVars == <<variant, autoSettle, ctx, inChain, dlvs, dlv_collector, dlv_emitted>>
flowVars == <<fl_receiver, fl_first, fl_lopen, fl_ropen, fl_credit, fl_queued,
              fl_inflight, fl_sent, fl_collector, fl_last>>
hsVars == <<hs_local, hs_remote, hs_collector, hs_calls, hs_app>>
boVars == <<bo_delay, bo_hist>>
scopeVars == <<sc_variant, sc_ctx, sc_queue, sc_log>>
injVars == <<inj_queue, inj_pipe, inj_tpc, inj_rpc, inj_count, inj_age>>
fdVars == <<fd_sel, fd_registered>>
inVars == <<in_auto, in_calls, in_dlvs, in_collector>>
urlVars == <<url_in, url_parsed, url_out, url_stage>>
urlsVars == <<urls_values, urls_i, urls_ret, urls_unpacked>>
evVars == <<ev_pc, ev_collector, ev_emitted, ev_during, ev_raises, ev_d, ev_log>>
wrVars == <<wr_stream, wr_pending, wr_head, wr_sent, wr_done, wr_last, wr_shorts>>
qVars == <<q_variant, q_pc, q_sel, q_selectables, q_reading, q_writing, q_found, q_added>>
icVars == <<ic_closed, ic_state, ic_seen>>
blVars == <<bl_pc, bl_dlvs, bl_collector, bl_sock, bl_op, bl_local, bl_remote,
            bl_log, bl_rets>>
loopVars == <<pc, abort, collector, timers, selectables, sel, conn, now,
              reading, writing, readable, writable, wait_until, fired,
              procStart, overdue, drainAbort, startedEmpty, waited, thisCall>>

vars == <<dlvVars, flowVars, hsVars, boVars, loopVars, scopeVars, injVars, fdVars, inVars, blVars, urlVars, urlsVars, evVars, wrVars, qVars, icVars>>

\* What each state machine leaves alone.
exceptDlv == <<flowVars, hsVars, boVars, loopVars, scopeVars, injVars, fdVars, inVars, blVars, urlVars, urlsVars, evVars, wrVars, qVars, icVars>>
exceptFlow == <<dlvVars, hsVars, boVars, loopVars, scopeVars, injVars, fdVars, inVars, blVars, urlVars, urlsVars, evVars, wrVars, qVars, icVars>>
exceptHs == <<dlvVars, flowVars, boVars, loopVars, scopeVars, injVars, fdVars, inVars, blVars, urlVars, urlsVars, evVars, wrVars, qVars, icVars>>
exceptBackoff == <<dlvVars, flowVars, hsVars, loopVars, scopeVars, injVars, fdVars, inVars, blVars, urlVars, urlsVars, evVars, wrVars, qVars, icVars>>
exceptLoop == <<dlvVars, flowVars, hsVars, boVars, scopeVars, injVars, fdVars, inVars, blVars, urlVars, urlsVars, evVars, wrVars, qVars, icVars>>
exceptScope == <<dlvVars, flowVars, hsVars, boVars, loopVars, injVars, fdVars, inVars, blVars, urlVars, urlsVars, evVars, wrVars, qVars, icVars>>
exceptInj == <<dlvVars, flowVars, hsVars, boVars, loopVars, scopeVars, fdVars, inVars, blVars, urlVars, urlsVars, evVars, wrVars, qVars, icVars>>
exceptFd == <<dlvVars, flowVars, hsVars, boVars, loopVars, scopeVars, injVars, inVars, blVars, urlVars, urlsVars, evVars, wrVars, qVars, icVars>>
exceptIn == <<dlvVars, flowVars, hsVars, boVars, loopVars, scopeVars, injVars, fdVars, blVars, urlVars, urlsVars, evVars, wrVars, qVars, icVars>>
exceptBl == <<dlvVars, flowVars, hsVars, boVars, loopVars, scopeVars, injVars, fdVars, inVars, urlVars, urlsVars, evVars, wrVars, qVars, icVars>>
exceptUrl == <<dlvVars, flowVars, hsVars, boVars, loopVars, scopeVars, injVars, fdVars, inVars, blVars, urlsVars, evVars, wrVars, qVars, icVars>>
exceptUrls == <<dlvVars, flowVars, hsVars, boVars, loopVars, scopeVars, injVars, fdVars, inVars, blVars, urlVars, evVars, wrVars, qVars, icVars>>
exceptEv == <<dlvVars, flowVars, hsVars, boVars, loopVars, scopeVars, injVars, fdVars, inVars, blVars, urlVars, urlsVars, wrVars, qVars, icVars>>
exceptWr == <<dlvVars, flowVars, hsVars, boVars, loopVars, scopeVars, injVars, fdVars, inVars, blVars, urlVars, urlsVars, evVars, qVars, icVars>>
exceptQ == <<dlvVars, flowVars, hsVars, boVars, loopVars, scopeVars, injVars, fdVars, inVars, blVars, urlVars, urlsVars, evVars, wrVars, icVars>>
exceptIc == <<dlvVars, flowVars, hsVars, boVars, loopVars, scopeVars, fdVars, inVars, blVars, urlVars, urlsVars, evVars, wrVars, qVars>>

(***************************************************************************)
(* Outgoing deliveries                                                      *)
(***************************************************************************)

\* Bounds of the delivery model.
MaxDlv == 2
MaxDlvEvents == 2

Outcomes == {"ACCEPTED", "REJECTED", "RELEASED", "MODIFIED"}
Hooks == {"accepted", "rejected", "released", "modified", "settled"}
Scopes == <<"delivery", "link", "session", "connection">>

\* A fresh delivery as send_msg leaves it.  updated, remote_state and settled
\* are the engine's fields; been_settled is the hidden _been_settled
\* attribute; calls, settle_calls, acc_events and out_events count what was
\* invoked and which events reached the handler.
NewDelivery ==
    [updated |-> FALSE, remote_state |-> "NONE", settled |-> FALSE,
     been_settled |-> FALSE,
     calls |-> [h \in Hooks |-> 0], settle_calls |-> 0, acc_events |-> 0,
     out_events |-> 0]

HookOf(st) ==
    CASE st = "ACCEPTED" -> "accepted"
      [] st = "REJECTED" -> "rejected"
      [] st = "RELEASED" -> "released"
      [] st = "MODIFIED" -> "modified"

Call(dv, h) == [dv EXCEPT !.calls[h] = @ + 1]

\* A handler that repeats the outcome hooks at every invocation.
on_delivery_unguarded(dv) ==
    IF dv.updated
    THEN LET a == IF dv.remote_state \in Outcomes
                  THEN Call(dv, HookOf(dv.remote_state)) ELSE dv
             b == IF a.settled THEN Call(a, "settled") ELSE a
         IN  IF autoSettle
             THEN [b EXCEPT !.been_settled = TRUE, !.settle_calls = @ + 1]
             ELSE b
    ELSE dv

\* OutgoingMessageHandler.on_delivery (proton_events.py).
on_delivery(dv) ==
    IF dv.updated /\ ~dv.been_settled
    THEN LET a == IF dv.remote_state \in Outcomes
                  THEN Call(dv, HookOf(dv.remote_state)) ELSE dv
             b == IF a.settled THEN Call(a, "settled") ELSE a
         IN  IF autoSettle
             THEN [b EXCEPT !.been_settled = TRUE, !.settle_calls = @ + 1]
             ELSE b
    ELSE dv

\* SenderHandler.delivery (proton_utils.py): no hidden flag, and every
\* outcome is reported through accepted().
delivery(dv) ==
    IF dv.updated
    THEN LET a == IF dv.remote_state \in Outcomes
                  THEN Call(dv, "accepted") ELSE dv
             b == IF a.settled THEN Call(a, "settled") ELSE a
         IN  IF autoSettle
             THEN [b EXCEPT !.settle_calls = @ + 1]
             ELSE b
    ELSE dv

RECURSIVE Times(_, _)
\* The handler invoked n times in a row on one event.
Times(n, dv) ==
    IF n = 0 THEN dv
    ELSE Times(n - 1, IF variant = "events" THEN on_delivery(dv) ELSE delivery(dv))

\* ScopedDispatcher.dispatch (proton_events.py): every context on the chain
\* delivery, link, session, connection that has the method is called.
ScopedTargets == SelectSeq(Scopes, LAMBDA s : ctx[s] = "H")

\* ScopedDispatcher.target_context (proton_utils.py): the first context
\* found, finest scope first; it is called only if it has the method.
target_context ==
    LET found == SelectSeq(Scopes, LAMBDA s : ctx[s] # "none")
    IN  IF found = <<>> THEN "none" ELSE ctx[Head(found)]

\* The number of times H.on_delivery runs for one DELIVERY event.
Invocations ==
    (IF variant = "events" THEN Len(ScopedTargets)
     ELSE IF target_context = "H" THEN 1 ELSE 0)
    + (IF inChain THEN 1 ELSE 0)

\* Events.dispatch: the event goes to every dispatcher of the chain, the
\* scoped dispatcher first.
Events_dispatch(dv) ==
    LET seen == Invocations > 0 /\ dv.updated /\ dv.remote_state = "ACCEPTED"
        out == Invocations > 0 /\ dv.updated /\ dv.remote_state \in Outcomes
        r == Times(Invocations, dv)
    IN  [r EXCEPT !.acc_events = IF seen THEN @ + 1 ELSE @,
                  !.out_events = IF out THEN 1 ELSE @]

DlvInit ==
    /\ variant \in {"events", "utils"}
    /\ autoSettle \in BOOLEAN
    /\ ctx \in {c \in [{"delivery", "link", "session", "connection"} ->
                        {"none", "H", "other"}] :
                  /\ c["session"] = "other"
                  /\ \A s \in {"delivery", "link", "connection"} : c[s] # "other"}
    /\ inChain \in BOOLEAN
    /\ dlvs = <<>>
    /\ dlv_collector = <<>>
    /\ dlv_emitted = 0

DlvIdle ==
    /\ variant = "events"
    /\ autoSettle = TRUE
    /\ ctx = [s \in {"delivery", "link", "session", "connection"} |-> "none"]
    /\ inChain = FALSE
    /\ dlvs = <<>>
    /\ dlv_collector = <<>>
    /\ dlv_emitted = 0

\* send_msg: a new delivery on the sender.
send_msg ==
    /\ Len(dlvs) < MaxDlv
    /\ dlvs' = Append(dlvs, NewDelivery)
    /\ UNCHANGED <<variant, autoSettle, ctx, inChain, dlv_collector, dlv_emitted>>
    /\ UNCHANGED exceptDlv

\* The engine reads a disposition frame of the peer for delivery d: an
\* outcome (once), the peer's settlement (once, last), or both.
PeerDisposition(d, st, stl) ==
    /\ d \in 1..Len(dlvs)
    /\ dlv_emitted < MaxDlvEvents
    /\ ~dlvs[d].settled
    /\ st # "NONE" => dlvs[d].remote_state = "NONE"
    /\ st # "NONE" \/ stl
    /\ dlvs' = [dlvs EXCEPT ![d] =
                  [@ EXCEPT !.updated = TRUE,
                            !.remote_state = IF st = "NONE" THEN @ ELSE st,
                            !.settled = stl]]
    /\ dlv_collector' = Append(dlv_collector, d)
    /\ dlv_emitted' = dlv_emitted + 1
    /\ UNCHANGED <<variant, autoSettle, ctx, inChain>>
    /\ UNCHANGED exceptDlv

\* The engine emits a DELIVERY event that carries no news of the peer.
EngineDeliveryEvent(d) ==
    /\ d \in 1..Len(dlvs)
    /\ dlv_emitted < MaxDlvEvents
    /\ dlv_collector' = Append(dlv_collector, d)
    /\ dlv_emitted' = dlv_emitted + 1
    /\ UNCHANGED <<variant, autoSettle, ctx, inChain, dlvs>>
    /\ UNCHANGED exceptDlv

\* Events.process, one turn of its loop: the head event is dispatched to
\* the whole chain and popped.
DispatchDelivery ==
    /\ dlv_collector # <<>>
    /\ LET d == Head(dlv_collector)
       IN  dlvs' = [dlvs EXCEPT ![d] = Events_dispatch(@)]
    /\ dlv_collector' = Tail(dlv_collector)
    /\ UNCHANGED <<variant, autoSettle, ctx, inChain, dlv_emitted>>
    /\ UNCHANGED exceptDlv

\* C1: whatever the module, the configuration and the events, the auto-settle
\* side effect (delivery.settle()) runs at most once for each delivery.
C1_SettleAtMostOnce ==
    \A d \in 1..Len(dlvs) : dlvs[d].settle_calls <= 1

\* The same for proton_events.py alone, where the hidden flag guards it.
C1_EventsSettleAtMostOnce ==
    variant = "events" => \A d \in 1..Len(dlvs) : dlvs[d].settle_calls <= 1

\* C2 as stated: with proton_events.py, whatever auto_settle() returns, a
\* delivery whose acceptance was dispatched to the handler has had exactly
\* one on_accepted call (and any other delivery none).
C2_AcceptedOnceAnyAutoSettle ==
    variant = "events" =>
        \A d \in 1..Len(dlvs) :
            dlvs[d].calls["accepted"] = IF dlvs[d].acc_events > 0 THEN 1 ELSE 0

\* C2 amended: the same provided auto_settle() returns true.
C2_AcceptedOnceWhenAutoSettle ==
    (variant = "events" /\ autoSettle) =>
        \A d \in 1..Len(dlvs) :
            dlvs[d].calls["accepted"] = IF dlvs[d].acc_events > 0 THEN 1 ELSE 0

\* Two accepted deliveries, the handler being the context of the delivery
\* and of the connection, and two on_accepted calls in all.
C2_Witness ==
    /\ variant = "events" /\ autoSettle
    /\ ctx["delivery"] = "H" /\ ctx["connection"] = "H"
    /\ Len(dlvs) = 2
    /\ \A d \in 1..2 : dlvs[d].acc_events = 1 /\ dlvs[d].calls["accepted"] = 1

\* The outcome hooks called for delivery d are the one of its remote state,
\* and that one was called if an outcome was dispatched to the handler.
HookMatchesRemoteState(d) ==
    /\ \A h \in Hooks \ {"settled"} :
          dlvs[d].calls[h] > 0 =>
              (dlvs[d].remote_state \in Outcomes /\ h = HookOf(dlvs[d].remote_state))
    /\ dlvs[d].out_events > 0 => dlvs[d].calls[HookOf(dlvs[d].remote_state)] > 0

\* C19: the outgoing handler calls the hook of the delivery's remote state
\* and no other outcome hook.
C19_HookMatchesRemoteState ==
    \A d \in 1..Len(dlvs) : HookMatchesRemoteState(d)

\* The same for proton_events.py alone.
C19_EventsHookMatchesRemoteState ==
    variant = "events" => \A d \in 1..Len(dlvs) : HookMatchesRemoteState(d)

NextDlv ==
    \/ send_msg
    \/ \E d \in 1..MaxDlv, st \in Outcomes \cup {"NONE"}, stl \in BOOLEAN :
          PeerDisposition(d, st, stl)
    \/ \E d \in 1..MaxDlv : EngineDeliveryEvent(d)
    \/ DispatchDelivery


(***************************************************************************)
(* The flow controller                                                      *)
(***************************************************************************)

\* Bounds of the flow model: the window W, the messages the peer sends, the
\* events queued at once and the LINK_FLOW events of the peer.
Window == 2
MaxMsgs == 3
MaxFlowQueue == 2

\* FlowController.top_up with the window handed out whole.
top_up_whole(credit) == credit + Window

\* FlowController.top_up: link.flow(window - link.credit).
top_up(credit) == credit + (Window - credit)

\* FlowController.on_link_open, on_link_remote_open, on_link_flow and
\* on_delivery: a receiver is topped up, a sender is left alone.
FlowController_dispatch(st) ==
    IF st.receiver THEN [st EXCEPT !.credit = top_up(@)] ELSE st

\* IncomingMessageHandler.on_delivery, as far as the link is concerned: a
\* readable, complete delivery is read by recv_msg, whose link.advance()
\* takes one credit and one queued message.
Consumer_dispatch(st, ev) ==
    IF ev.type = "DELIVERY" /\ ev.complete /\ st.receiver /\ st.queued > 0
    THEN [st EXCEPT !.credit = @ - 1, !.queued = @ - 1]
    ELSE st

\* EventLoop.__init__ and Events.dispatch: the dispatchers in list order.
\* The consumer is reached through the scoped dispatcher (always first) or
\* is a handler of the list, before or after the flow controller.
FlowChain ==
    IF fl_first THEN <<"FlowController", "consumer">>
    ELSE <<"consumer", "FlowController">>

RECURSIVE FlowDispatch(_, _, _)
FlowDispatch(chain, st, ev) ==
    IF chain = <<>> THEN st
    ELSE FlowDispatch(Tail(chain),
                      IF Head(chain) = "FlowController"
                      THEN FlowController_dispatch(st)
                      ELSE Consumer_dispatch(st, ev),
                      ev)

FlowInit ==
    /\ fl_receiver \in BOOLEAN
    /\ fl_first \in BOOLEAN
    /\ fl_lopen = FALSE
    /\ fl_ropen = FALSE
    /\ fl_credit = 0
    /\ fl_queued = 0
    /\ fl_inflight = 0
    /\ fl_sent = 0
    /\ fl_collector = <<>>
    /\ fl_last = "NONE"

FlowIdle ==
    /\ fl_receiver = TRUE
    /\ fl_first = FALSE
    /\ fl_lopen = FALSE
    /\ fl_ropen = FALSE
    /\ fl_credit = 0
    /\ fl_queued = 0
    /\ fl_inflight = 0
    /\ fl_sent = 0
    /\ fl_collector = <<>>
    /\ fl_last = "NONE"

FlowEvent(t, c) == [type |-> t, complete |-> c]

\* link.open() by the application: a LINK_OPEN event.
FlowLinkOpen ==
    /\ ~fl_lopen
    /\ Len(fl_collector) < MaxFlowQueue
    /\ fl_lopen' = TRUE
    /\ fl_collector' = Append(fl_collector, FlowEvent("LINK_OPEN", FALSE))
    /\ UNCHANGED <<fl_receiver, fl_first, fl_ropen, fl_credit, fl_queued,
                   fl_inflight, fl_sent, fl_last>>
    /\ UNCHANGED exceptFlow

\* The peer's attach is read: a LINK_REMOTE_OPEN event.
FlowPeerOpen ==
    /\ ~fl_ropen
    /\ Len(fl_collector) < MaxFlowQueue
    /\ fl_ropen' = TRUE
    /\ fl_collector' = Append(fl_collector, FlowEvent("LINK_REMOTE_OPEN", FALSE))
    /\ UNCHANGED <<fl_receiver, fl_first, fl_lopen, fl_credit, fl_queued,
                   fl_inflight, fl_sent, fl_last>>
    /\ UNCHANGED exceptFlow

\* The peer sends a message against the credit it was granted.
FlowPeerSend ==
    /\ fl_receiver /\ fl_ropen
    /\ fl_sent < MaxMsgs
    /\ fl_inflight + fl_queued < fl_credit
    /\ fl_inflight' = fl_inflight + 1
    /\ fl_sent' = fl_sent + 1
    /\ UNCHANGED <<fl_receiver, fl_first, fl_lopen, fl_ropen, fl_credit,
                   fl_queued, fl_collector, fl_last>>
    /\ UNCHANGED exceptFlow

\* Bytes of a message are read: a DELIVERY event, for a part of the message
\* (complete = FALSE) or for its end.
FlowArrive(complete) ==
    /\ fl_inflight > 0
    /\ Len(fl_collector) < MaxFlowQueue
    /\ fl_inflight' = IF complete THEN fl_inflight - 1 ELSE fl_inflight
    /\ fl_queued' = IF complete THEN fl_queued + 1 ELSE fl_queued
    /\ fl_collector' = Append(fl_collector, FlowEvent("DELIVERY", complete))
    /\ UNCHANGED <<fl_receiver, fl_first, fl_lopen, fl_ropen, fl_credit,
                   fl_sent, fl_last>>
    /\ UNCHANGED exceptFlow

\* A flow frame of the peer is read: a LINK_FLOW event; on a sender it
\* brings the credit the peer grants.
FlowPeerFlow(c) ==
    /\ fl_ropen
    /\ Len(fl_collector) < MaxFlowQueue
    /\ fl_credit' = IF fl_receiver THEN fl_credit ELSE c
    /\ fl_collector' = Append(fl_collector, FlowEvent("LINK_FLOW", FALSE))
    /\ UNCHANGED <<fl_receiver, fl_first, fl_lopen, fl_ropen, fl_queued,
                   fl_inflight, fl_sent, fl_last>>
    /\ UNCHANGED exceptFlow

\* Events.process, one turn: the head event goes through the chain and is
\* popped.
FlowDispatchEvent ==
    /\ fl_collector # <<>>
    /\ LET ev == Head(fl_collector)
           st == FlowDispatch(FlowChain,
                              [receiver |-> fl_receiver, credit |-> fl_credit,
                               queued |-> fl_queued], ev)
       IN  /\ fl_credit' = st.credit
           /\ fl_queued' = st.queued
           /\ fl_last' = ev.type
    /\ fl_collector' = Tail(fl_collector)
    /\ UNCHANGED <<fl_receiver, fl_first, fl_lopen, fl_ropen, fl_inflight, fl_sent>>
    /\ UNCHANGED exceptFlow

NextFlow ==
    \/ FlowLinkOpen
    \/ FlowPeerOpen
    \/ FlowPeerSend
    \/ \E complete \in BOOLEAN : FlowArrive(complete)
    \/ \E c \in 0..Window : FlowPeerFlow(c)
    \/ FlowDispatchEvent

\* C3 as stated: wherever the flow controller stands in the chain, a receiver
\* has credit W once a DELIVERY event has gone through the whole chain and
\* nothing is in flight or queued.
C3_CreditIsWindow ==
    (fl_receiver /\ fl_last = "DELIVERY" /\ fl_inflight = 0 /\ fl_collector = <<>>)
        => fl_credit = Window

\* C3 amended: the same when the flow controller runs after the handler that
\* reads the message.
C3_CreditIsWindowWhenLast ==
    (fl_receiver /\ ~fl_first /\ fl_last = "DELIVERY" /\ fl_inflight = 0
        /\ fl_collector = <<>>)
        => fl_credit = Window

\* All the messages of the bound were read and the credit is back at W.
C3_Witness ==
    /\ fl_receiver /\ ~fl_first /\ fl_last = "DELIVERY"
    /\ fl_sent = MaxMsgs /\ fl_inflight = 0 /\ fl_queued = 0
    /\ fl_collector = <<>> /\ fl_credit = Window

(***************************************************************************)
(* The handshaker                                                           *)
(***************************************************************************)

\* Bound of the handshake model: the events queued at once.
MaxHsQueue == 3

Endpoints == {"connection", "session", "link"}
Parent(e) == IF e = "link" THEN "session" ELSE "connection"

\* The engine's open() and close() of an endpoint: the local half changes
\* and the local event is queued.
HsOpen(st, e) ==
    [st EXCEPT !.local[e] = "ACTIVE",
               !.collector = Append(@, [type |-> "OPEN", ep |-> e])]
HsClose(st, e) ==
    [st EXCEPT !.local[e] = "CLOSED",
               !.collector = Append(@, [type |-> "CLOSE", ep |-> e])]

\* A handshaker that opens only what is open already.
on_remote_open_active(st, e) ==
    IF st.local[e] = "ACTIVE"
    THEN [HsOpen(st, e) EXCEPT !.calls[e].open = @ + 1]
    ELSE st

\* Handshaker.on_connection_remote_open, on_session_remote_open and
\* on_link_remote_open: open() if the local half is UNINIT.
on_remote_open(st, e) ==
    IF st.local[e] = "UNINIT"
    THEN [HsOpen(st, e) EXCEPT !.calls[e].open = @ + 1]
    ELSE st

\* A handshaker that answers every remote close with close().
on_remote_close_always(st, e) ==
    [HsClose(st, e) EXCEPT !.calls[e].close = @ + 1]

\* Handshaker.on_connection_remote_close, on_session_remote_close and
\* on_link_remote_close: close() unless the local half is CLOSED.
on_remote_close(st, e) ==
    IF st.local[e] # "CLOSED"
    THEN [HsClose(st, e) EXCEPT !.calls[e].close = @ + 1]
    ELSE st

\* EventDispatcher.dispatch of the handshaker: the method of the event's
\* type, or unhandled.
Handshaker_dispatch(st, ev) ==
    CASE ev.type = "REMOTE_OPEN" -> on_remote_open(st, ev.ep)
      [] ev.type = "REMOTE_CLOSE" -> on_remote_close(st, ev.ep)
      [] OTHER -> st

HsInit ==
    /\ hs_local = [e \in Endpoints |-> "UNINIT"]
    /\ hs_remote = [e \in Endpoints |-> "UNINIT"]
    /\ hs_collector = <<>>
    /\ hs_calls = [e \in Endpoints |-> [open |-> 0, close |-> 0]]
    /\ hs_app = [e \in Endpoints |-> FALSE]

HsIdle == HsInit

\* The peer's open, begin or attach is read.
HsPeerOpen(e) ==
    /\ hs_remote[e] = "UNINIT"
    /\ e # "connection" => hs_remote[Parent(e)] = "ACTIVE"
    /\ Len(hs_collector) < MaxHsQueue
    /\ hs_remote' = [hs_remote EXCEPT ![e] = "ACTIVE"]
    /\ hs_collector' = Append(hs_collector, [type |-> "REMOTE_OPEN", ep |-> e])
    /\ UNCHANGED <<hs_local, hs_calls, hs_app>>
    /\ UNCHANGED exceptHs

\* The peer's close, end or detach is read.
HsPeerClose(e) ==
    /\ hs_remote[e] = "ACTIVE"
    /\ Len(hs_collector) < MaxHsQueue
    /\ hs_remote' = [hs_remote EXCEPT ![e] = "CLOSED"]
    /\ hs_collector' = Append(hs_collector, [type |-> "REMOTE_CLOSE", ep |-> e])
    /\ UNCHANGED <<hs_local, hs_calls, hs_app>>
    /\ UNCHANGED exceptHs

\* The application opens an endpoint itself.
HsAppOpen(e) ==
    /\ hs_local[e] = "UNINIT"
    /\ Len(hs_collector) < MaxHsQueue
    /\ hs_local' = [hs_local EXCEPT ![e] = "ACTIVE"]
    /\ hs_collector' = Append(hs_collector, [type |-> "OPEN", ep |-> e])
    /\ hs_app' = [hs_app EXCEPT ![e] = TRUE]
    /\ UNCHANGED <<hs_remote, hs_calls>>
    /\ UNCHANGED exceptHs

\* The application closes an endpoint itself.
HsAppClose(e) ==
    /\ hs_local[e] = "ACTIVE"
    /\ Len(hs_collector) < MaxHsQueue
    /\ hs_local' = [hs_local EXCEPT ![e] = "CLOSED"]
    /\ hs_collector' = Append(hs_collector, [type |-> "CLOSE", ep |-> e])
    /\ hs_app' = [hs_app EXCEPT ![e] = TRUE]
    /\ UNCHANGED <<hs_remote, hs_calls>>
    /\ UNCHANGED exceptHs

\* Events.process, one turn: the head event is handled by the handshaker
\* and popped; what the handshaker did is queued behind it.
HsDispatchEvent ==
    /\ hs_collector # <<>>
    /\ LET st == Handshaker_dispatch(
                    [local |-> hs_local, collector |-> hs_collector,
                     calls |-> hs_calls], Head(hs_collector))
       IN  /\ hs_local' = st.local
           /\ hs_calls' = st.calls
           /\ hs_collector' = Tail(st.collector)
    /\ UNCHANGED <<hs_remote, hs_app>>
    /\ UNCHANGED exceptHs

NextHs ==
    \/ \E e \in Endpoints : HsPeerOpen(e)
    \/ \E e \in Endpoints : HsPeerClose(e)
    \/ \E e \in Endpoints : HsAppOpen(e)
    \/ \E e \in Endpoints : HsAppClose(e)
    \/ HsDispatchEvent

\* C4: once the collector is drained, every endpoint that the peer opened
\* (and has not closed) and that the application never touched is ACTIVE
\* on both halves.
C4_HandshakeActive ==
    hs_collector = <<>> =>
        \A e \in Endpoints :
            (hs_remote[e] = "ACTIVE" /\ ~hs_app[e]) => hs_local[e] = "ACTIVE"

\* The peer opened the connection, the session and the link, the handshaker
\* answered each with one open(), and nothing is queued.
C4_Witness ==
    /\ hs_collector = <<>>
    /\ \A e \in Endpoints :
          /\ hs_remote[e] = "ACTIVE" /\ hs_local[e] = "ACTIVE"
          /\ ~hs_app[e] /\ hs_calls[e].open = 1

\* C30: when the handshaker handles REMOTE_OPEN it calls open() if and only
\* if the local half is UNINIT, and when it handles REMOTE_CLOSE it calls
\* close() if and only if the local half is not CLOSED; after a REMOTE_CLOSE
\* was handled the local half is CLOSED, the handshaker calls nothing on
\* any other event or endpoint, and it never calls open() or close() twice
\* on one endpoint.
C30_MirrorsThePeer ==
    /\ [](\A e \in Endpoints : hs_calls[e].open <= 1 /\ hs_calls[e].close <= 1)
    /\ [][HsDispatchEvent =>
            LET ev == Head(hs_collector)
            IN  \A e \in Endpoints :
                  /\ hs_calls'[e].open = hs_calls[e].open + 1 <=>
                        (ev = [type |-> "REMOTE_OPEN", ep |-> e]
                            /\ hs_local[e] = "UNINIT")
                  /\ hs_calls'[e].close = hs_calls[e].close + 1 <=>
                        (ev = [type |-> "REMOTE_CLOSE", ep |-> e]
                            /\ hs_local[e] # "CLOSED")
                  /\ hs_calls'[e].open \in {hs_calls[e].open,
                                            hs_calls[e].open + 1}
                  /\ hs_calls'[e].close \in {hs_calls[e].close,
                                             hs_calls[e].close + 1}
                  /\ ev = [type |-> "REMOTE_CLOSE", ep |-> e] =>
                        hs_local'[e] = "CLOSED"
                  /\ hs_local'[e] # hs_local[e] =>
                        (hs_calls'[e].open > hs_calls[e].open \/
                         hs_calls'[e].close > hs_calls[e].close)]_vars

\* The peer's closes were handled: the handshaker closed the link, which
\* was open, and left alone the connection, which the application had
\* closed, and the session it had opened once it did not open again.
C30_Witness ==
    /\ hs_collector = <<>>
    /\ hs_remote["link"] = "CLOSED" /\ hs_local["link"] = "CLOSED"
    /\ hs_calls["link"] = [open |-> 1, close |-> 1]
    /\ hs_remote["connection"] = "CLOSED" /\ hs_local["connection"] = "CLOSED"
    /\ hs_calls["connection"].close = 0
    /\ hs_remote["session"] = "ACTIVE" /\ hs_calls["session"].open = 1

(***************************************************************************)
(* The reconnect policy                                                     *)
(***************************************************************************)

\* Bound of the policy model: the next() and reset() calls.
MaxBackoffCalls == 13

\* Delays are counted in tenths of a second: 0.1 s and 10 s.
BackoffFirst == 1
BackoffCap == 100

Min(a, b) == IF a < b THEN a ELSE b

\* A policy that doubles without a ceiling.
Backoff_next_uncapped(delay) ==
    [current |-> delay,
     delay |-> IF delay = 0 THEN BackoffFirst ELSE 2 * delay]

\* Backoff.next: the value returned and the delay kept for the next call.
Backoff_next(delay) ==
    [current |-> delay,
     delay |-> IF delay = 0 THEN BackoffFirst ELSE Min(BackoffCap, 2 * delay)]

\* Backoff.reset.
Backoff_reset == 0

\* Backoff.__init__.
BoInit ==
    /\ bo_delay = 0
    /\ bo_hist = <<>>

BoIdle == BoInit

BoNext ==
    /\ Len(bo_hist) < MaxBackoffCalls
    /\ bo_hist' = Append(bo_hist, [reset |-> FALSE,
                                   value |-> Backoff_next(bo_delay).current])
    /\ bo_delay' = Backoff_next(bo_delay).delay
    /\ UNCHANGED exceptBackoff

BoReset ==
    /\ Len(bo_hist) < MaxBackoffCalls
    /\ bo_hist' = Append(bo_hist, [reset |-> TRUE, value |-> 0])
    /\ bo_delay' = Backoff_reset
    /\ UNCHANGED exceptBackoff

NextBackoff == BoNext \/ BoReset

\* The documented schedule in tenths of a second: 0, 0.1, 0.2, 0.4, 0.8,
\* 1.6, 3.2, 6.4, 10, 10, ...
Schedule == <<0, 1, 2, 4, 8, 16, 32, 64, 100>>
ScheduleAt(k) == IF k <= Len(Schedule) THEN Schedule[k] ELSE 100

\* The calls of next() since the last reset(), counting the i-th entry.
RECURSIVE SinceReset(_, _)
SinceReset(h, i) ==
    IF i = 0 THEN 0
    ELSE IF h[i].reset THEN 0 ELSE 1 + SinceReset(h, i - 1)

\* C8: the k-th next() after construction or after a reset() returns the
\* k-th value of the documented schedule, which never exceeds 10 s and
\* never decreases.
C8_ReconnectSequence ==
    \A i \in 1..Len(bo_hist) :
        ~bo_hist[i].reset =>
            /\ bo_hist[i].value = ScheduleAt(SinceReset(bo_hist, i))
            /\ bo_hist[i].value <= 100
            /\ i > 1 => (bo_hist[i - 1].reset \/ bo_hist[i - 1].value <= bo_hist[i].value)

\* Two calls, a reset(), and then ten calls that run through the whole
\* schedule from 0 and reach the ceiling twice.
C8_Witness ==
    /\ Len(bo_hist) = 13
    /\ bo_hist[3].reset
    /\ [i \in 1..13 |-> bo_hist[i].value] =
           <<0, 1, 0, 0, 1, 2, 4, 8, 16, 32, 64, 100, 100>>

(***************************************************************************)
(* The reactor, its timers and the connector                                *)
(***************************************************************************)

\* Bounds of the reactor model: the clock stops at MaxTime, only the first
\* MaxFail socket adapters can fail, and the application schedules at most
\* MaxUserTimers timers of its own.
MaxTime == 3
MaxFail == 2
MaxUserTimers == 2

\* The default timeout of do_work, 3 s, in tenths of a second.
SelectTimeout == 30

\* The connections of the model; an application with a reconnect policy or
\* one that closes and stops has the first alone.
Conns == {"c1", "c2"}
LoopConns == {"c1"}

\* The state that handlers change, as one record.
Cur ==
    [abort |-> abort, collector |-> collector, timers |-> timers,
     selectables |-> selectables, sel |-> sel, conn |-> conn,
     fired |-> fired, raised |-> FALSE]

LoopEvent(type, c, subject) == [type |-> type, conn |-> c, subject |-> subject]

\* What the application's handler does with an event: nothing, EventLoop.stop(),
\* connection.close() or EventLoop.schedule(at).
ConnActs == {[kind |-> k, at |-> 0] : k \in {"none", "stop", "close"}}
TimerActs ==
    {[kind |-> k, at |-> 0] : k \in {"none", "stop"}}
        \cup {[kind |-> "schedule", at |-> d] : d \in 0..MaxTime}

\* A connection before EventLoop.connect() made it.
NoConnection ==
    [local |-> "UNINIT", remote |-> "UNINIT", address |-> "none",
     reconnect |-> FALSE, delay |-> 0,
     attempts |-> 0, reconnects |-> 0, discs |-> 0,
     wasReset |-> FALSE, discSince |-> 0, lastDelay |-> 0,
     cleanRemovals |-> 0, uncleanRemovals |-> 0]

\* Selectable.__init__: a fresh transport bound to the connection, which is
\* locally open and so has its header and open frame to write.  sockerr
\* records a socket.error raised by recv ("recv") or by send ("send").
NewSelectable(c) ==
    [conn |-> c, read_done |-> FALSE, write_done |-> FALSE,
     tail_closed |-> FALSE, head_closed |-> FALSE, pending |-> TRUE,
     sockerr |-> "no", removed |-> 0]

\* An adapter off the loop's list: its socket is closed, its fields are of no
\* further use.
Removed ==
    [conn |-> "none", read_done |-> TRUE, write_done |-> TRUE,
     tail_closed |-> FALSE, head_closed |-> FALSE, pending |-> FALSE,
     sockerr |-> "no", removed |-> 0]

\* The timers scheduled so far are numbered in the order of scheduling.
NextTimerId(st) == Cardinality(st.timers) + Len(st.fired) + 1

UserTimers(st) ==
    Cardinality({t \in st.timers : t.subject = "app"})
        + Cardinality({i \in 1..Len(st.fired) : st.fired[i].subject = "app"})

\* ScheduledEvents.schedule through EventLoop.schedule: a timer event for the
\* connection and subject, due at deadline.  made and delay record when and
\* with which delay it was scheduled, born how many timers had fired by then.
schedule(st, deadline, c, subject, delay) ==
    [st EXCEPT !.timers = @ \cup
        {[id |-> NextTimerId(st), deadline |-> deadline, conn |-> c,
          subject |-> subject, made |-> now, delay |-> delay,
          born |-> Len(st.fired)]}]

\* Connector._connect: address.next() is unpacked into host and port, which
\* fails on the Url object that Urls.next() returns; otherwise a new socket
\* adapter is registered.
Connector_connect(st, c, again) ==
    IF st.conn[c].address = "Urls"
    THEN [st EXCEPT !.raised = TRUE]
    ELSE [st EXCEPT !.sel = Append(@, NewSelectable(c)),
                    !.selectables = Append(@, Len(st.sel) + 1),
                    !.conn[c].attempts = @ + 1,
                    !.conn[c].reconnects = @ + (IF again THEN 1 ELSE 0)]

on_connection_open(st, ev) ==
    IF st.conn[ev.conn].address # "none"
    THEN Connector_connect(st, ev.conn, FALSE)
    ELSE st

\* A connector that sees the peer's open and leaves the policy as it is.
on_connection_remote_open_keep(st, ev) ==
    IF st.conn[ev.conn].reconnect
    THEN [st EXCEPT !.conn[ev.conn].wasReset = TRUE,
                    !.conn[ev.conn].discSince = 0]
    ELSE st

on_connection_remote_open(st, ev) ==
    IF st.conn[ev.conn].reconnect
    THEN [st EXCEPT !.conn[ev.conn].delay = Backoff_reset,
                    !.conn[ev.conn].wasReset = TRUE,
                    !.conn[ev.conn].discSince = 0]
    ELSE st

\* A connector that reconnects at once and sets a timer as well.
on_disconnected_both(st, ev) ==
    LET c == ev.conn
        nx == Backoff_next(st.conn[c].delay)
    IN  IF ~st.conn[c].reconnect THEN st
        ELSE schedule(Connector_connect(
                          [st EXCEPT !.conn[c].delay = nx.delay], c, TRUE),
                      now + nx.current, c, "connector", nx.current)

\* Connector.on_disconnected: the next delay of the policy; a reconnect at
\* once if it is 0 and a timer otherwise.
on_disconnected(st, ev) ==
    LET c == ev.conn
        counted == [st EXCEPT !.conn[c].discs = @ + 1]
    IN  IF ~st.conn[c].reconnect THEN counted
        ELSE LET nx == Backoff_next(st.conn[c].delay)
                 st1 == [counted EXCEPT !.conn[c].delay = nx.delay,
                                        !.conn[c].discSince = @ + 1,
                                        !.conn[c].lastDelay = nx.current]
             IN  IF nx.current = 0
                 THEN Connector_connect(st1, c, TRUE)
                 ELSE schedule(st1, now + nx.current, c, "connector",
                               nx.current)

\* A connector that lets its timers pass.
on_timer_ignored(st, ev) == st

on_timer(st, ev) ==
    IF ev.subject = "connector" /\ ev.conn # "none"
    THEN Connector_connect(st, ev.conn, TRUE)
    ELSE st

Connector_dispatch(st, ev) ==
    CASE ev.type = "CONNECTION_OPEN" -> on_connection_open(st, ev)
      [] ev.type = "CONNECTION_REMOTE_OPEN" -> on_connection_remote_open(st, ev)
      [] ev.type = "disconnected" -> on_disconnected(st, ev)
      [] ev.type = "timer" -> on_timer(st, ev)
      [] OTHER -> st

\* The adapters registered for connection c.
Bound(st, c) == {s \in 1..Len(st.sel) :
                    st.sel[s].conn = c /\ \E i \in 1..Len(st.selectables) :
                                               st.selectables[i] = s}

\* The application's handler, reached through the connection's context or as
\* one of the loop's dispatchers.  close() on an open connection closes the
\* local half; the engine queues CONNECTION_CLOSE and has a frame to write.
App_dispatch(st, ev, act) ==
    CASE act.kind = "stop" -> [st EXCEPT !.abort = TRUE]
      [] act.kind = "close" /\ ev.conn # "none" ->
            IF st.conn[ev.conn].local # "ACTIVE" THEN st
            ELSE [st EXCEPT
                    !.conn[ev.conn].local = "CLOSED",
                    !.collector = Append(@, LoopEvent("CONNECTION_CLOSE",
                                                      ev.conn, "none")),
                    !.sel = [s \in 1..Len(st.sel) |->
                                IF s \in Bound(st, ev.conn)
                                THEN [st.sel[s] EXCEPT !.pending = TRUE]
                                ELSE st.sel[s]]]
      [] act.kind = "schedule" /\ UserTimers(st) < MaxUserTimers ->
            schedule(st, act.at, "none", "app", 0)
      [] OTHER -> st

\* Events.dispatch: every dispatcher in order, the application's handler
\* through the scoped dispatcher first and the connector after it.  An
\* exception out of a dispatcher ends the dispatch.
dispatch(st, ev, act) ==
    LET st1 == App_dispatch(st, ev, act)
    IN  IF st1.raised THEN st1 ELSE Connector_dispatch(st1, ev)

\* An adapter that takes a locally closed connection for cleanly closed.
closed_cleanly_local(c) == c.local = "CLOSED"

closed_cleanly(c) == c.local = "CLOSED" /\ c.remote = "CLOSED"

\* The removal of an adapter of connection c is counted, apart for the
\* connections that are then closed on both sides and for the others.
CountRemoval(st, c) ==
    IF st.conn[c].local = "CLOSED" /\ st.conn[c].remote = "CLOSED"
    THEN [st EXCEPT !.conn[c].cleanRemovals = @ + 1]
    ELSE [st EXCEPT !.conn[c].uncleanRemovals = @ + 1]

\* Selectable.removed: unless the connection closed cleanly the transport is
\* unbound, upon which the engine forgets the peer's half, and a disconnected
\* event is dispatched at once.
Selectable_removed(st, s, act) ==
    LET c == st.sel[s].conn
        st1 == CountRemoval([st EXCEPT !.sel[s] = [Removed EXCEPT
                                        !.conn = c,
                                        !.removed = st.sel[s].removed + 1]], c)
    IN  IF closed_cleanly(st.conn[c]) THEN st1
        ELSE dispatch([st1 EXCEPT !.conn[c].remote = "UNINIT"],
                      LoopEvent("disconnected", c, "none"), act)

\* Selectable.reading, writing and closed, with what they change.
Selectable_reading(s) == ~s.read_done /\ ~s.tail_closed
Selectable_writing(s) == ~s.write_done /\ ~s.head_closed /\ s.pending
Selectable_polled(s) ==
    [s EXCEPT !.read_done = @ \/ s.tail_closed,
              !.write_done = @ \/ s.head_closed]
Selectable_closed(s) == s.read_done /\ s.write_done

Registered(st) == {st.selectables[i] : i \in 1..Len(st.selectables)}

\* The first loop of a sweep: every registered adapter is asked reading(),
\* writing() and closed().
Polled(st) ==
    [st EXCEPT !.sel = [s \in 1..Len(st.sel) |->
                          IF s \in Registered(st)
                          THEN Selectable_polled(st.sel[s])
                          ELSE st.sel[s]]]

IsClosed(st, s) == Selectable_closed(st.sel[s])

\* A sweep that takes the closed adapters off the list and tells them nothing.
RemoveClosed_silent(st, closed, act) ==
    [st EXCEPT !.selectables =
        SelectSeq(@, LAMBDA x : \A i \in 1..Len(closed) : closed[i] # x)]

\* The second loop of a sweep: each closed adapter is taken off the list and
\* told removed(), in list order.
RECURSIVE RemoveClosed(_, _, _)
RemoveClosed(st, closed, act) ==
    IF closed = <<>> \/ st.raised THEN st
    ELSE LET s == Head(closed)
             off == [st EXCEPT !.selectables =
                        SelectSeq(st.selectables, LAMBDA x : x # s)]
         IN  RemoveClosed(Selectable_removed(off, s, act), Tail(closed), act)

\* SelectLoop.redundant, over ScheduledEvents.empty.
redundant(st) ==
    /\ st.collector = <<>> /\ st.timers = {}
    /\ st.selectables = <<>>

\* ScheduledEvents.next_interval when there are timers.
EarliestDeadline(ts) == CHOOSE d \in {t.deadline : t \in ts} :
                            \A t \in ts : d <= t.deadline
next_interval(ts) ==
    IF EarliestDeadline(ts) > now THEN EarliestDeadline(ts) - now ELSE 0

\* The timeout do_work hands to select(): a next_interval of None or 0 is
\* false and leaves the default.
select_timeout(ts) ==
    IF ts # {} /\ next_interval(ts) # 0 /\ next_interval(ts) < SelectTimeout
    THEN next_interval(ts)
    ELSE SelectTimeout

\* An adapter whose socket error marks every adapter of the loop done.
Selectable_readable_all(st, s, out) ==
    IF out = "error"
    THEN [st EXCEPT !.sel = [t \in 1..Len(st.sel) |->
                                [st.sel[t] EXCEPT !.read_done = TRUE,
                                                  !.write_done = TRUE]]]
    ELSE st

\* Selectable.readable, given what the socket and the transport do: out is
\* "data" (frames that raise no connection event), "remote_open" or
\* "remote_close" (the peer's open or close frame), "bad_frame" (push raises
\* TransportException), "eof" (recv returns nothing) or "error" (socket.error).
Selectable_readable(st, s, out) ==
    LET c == st.sel[s].conn
    IN  IF st.sel[s].tail_closed
        THEN [st EXCEPT !.sel[s].read_done = TRUE]
        ELSE CASE out = "remote_open" ->
                    [st EXCEPT !.conn[c].remote = "ACTIVE",
                               !.collector = Append(@,
                                   LoopEvent("CONNECTION_REMOTE_OPEN", c, "none"))]
               [] out = "remote_close" ->
                    [st EXCEPT !.conn[c].remote = "CLOSED",
                               !.collector = Append(@,
                                   LoopEvent("CONNECTION_REMOTE_CLOSE", c, "none"))]
               [] out = "bad_frame" ->
                    [st EXCEPT !.sel[s].read_done = TRUE,
                               !.sel[s].tail_closed = TRUE]
               [] out = "eof" ->
                    IF ~closed_cleanly(st.conn[c])
                    THEN [st EXCEPT !.sel[s].read_done = TRUE,
                                    !.sel[s].write_done = TRUE]
                    ELSE [st EXCEPT !.sel[s].tail_closed = TRUE]
               [] out = "error" ->
                    [st EXCEPT !.sel[s].read_done = TRUE,
                               !.sel[s].write_done = TRUE,
                               !.sel[s].sockerr = "recv"]
               [] OTHER -> st

\* Selectable.writable: out is "sent" (all pending bytes written; after the
\* close frame the transport has nothing more to write, ever), "part" (a short
\* write) or "error" (socket.error; a TransportException does the same).
Selectable_writable(st, s, out) ==
    LET c == st.sel[s].conn
    IN  IF st.sel[s].head_closed
        THEN [st EXCEPT !.sel[s].write_done = TRUE]
        ELSE IF ~st.sel[s].pending THEN st
        ELSE CASE out = "sent" ->
                    [st EXCEPT !.sel[s].pending = FALSE,
                               !.sel[s].head_closed =
                                   (st.conn[c].local = "CLOSED")]
               [] out = "error" -> [st EXCEPT !.sel[s].write_done = TRUE,
                                              !.sel[s].sockerr = "send"]
               [] OTHER -> st

\* Whether an outcome is a failure of the transport or its socket.
IsFailure(st, s, out) ==
    \/ out \in {"bad_frame", "error"}
    \/ out = "eof" /\ ~closed_cleanly(st.conn[st.sel[s].conn])

\* The outcomes the environment can produce for a read.
CanRead(st, s, out) ==
    /\ out \in {"data", "remote_open", "remote_close", "bad_frame", "eof",
                "error"}
    /\ out = "remote_open" => st.conn[st.sel[s].conn].remote = "UNINIT"
    /\ out = "remote_close" => st.conn[st.sel[s].conn].remote = "ACTIVE"
    /\ IsFailure(st, s, out) => Len(st.sel) <= MaxFail

CanWrite(st, s, out) ==
    /\ out \in {"sent", "part", "error"}
    /\ out = "error" => Len(st.sel) <= MaxFail

Smallest(S) == CHOOSE x \in S : \A y \in S : x <= y

\* A loop condition that lets a timer wait until its deadline has passed.
ScheduledEvents_due_late(t) == t.deadline < now

\* The loop condition of ScheduledEvents.process.
ScheduledEvents_due(t) == t.deadline <= now

\* The head of the heap: a timer of the earliest deadline.
IsHead(ts, t) == t \in ts /\ \A u \in ts : t.deadline <= u.deadline

\* A do_work that goes on to the sweep whatever _abort says.
after_process_on(a) == "sweep"

\* Where do_work goes after events.process(): back to run() if aborted.
after_process(a) == IF a THEN "run" ELSE "sweep"

\* The condition of the while loop of run().
run_exits(st) == st.abort \/ redundant(st)

\* The record of a call of process(): the collector events queued at its
\* start, those of them not yet dispatched, and the timers it dispatched.
NoCall == [queued |-> 0, left |-> 0, timers |-> 0]

LoopInit ==
    /\ pc = "idle" /\ abort = FALSE
    /\ collector = <<>> /\ timers = {}
    /\ selectables = <<>> /\ sel = <<>>
    /\ conn = [c \in Conns |-> NoConnection]
    /\ now = 0
    /\ reading = {} /\ writing = {} /\ readable = {} /\ writable = {}
    /\ wait_until = 0
    /\ fired = <<>> /\ procStart = 0 /\ overdue = {}
    /\ drainAbort = "no" /\ startedEmpty = FALSE /\ waited = FALSE
    /\ thisCall = NoCall

LoopIdle == LoopInit

\* The variables a handler can change take their values from st; an exception
\* leaves the thread outside run().
Install(st, to) ==
    /\ abort' = st.abort /\ collector' = st.collector
    /\ timers' = st.timers /\ selectables' = st.selectables
    /\ sel' = st.sel /\ conn' = st.conn /\ fired' = st.fired
    /\ pc' = IF st.raised THEN "raised" ELSE to

\* The variables of a select() under way and the records about the run.
selectVars == <<reading, writing, readable, writable, wait_until>>
noteVars == <<procStart, overdue, drainAbort, startedEmpty, waited>>

\* EventLoop.connect before run(): a connection with an address and maybe a
\* reconnect policy is opened, which queues CONNECTION_OPEN.
connect(c, address, reconnect) ==
    /\ pc = "idle" /\ conn[c].local = "UNINIT"
    /\ conn' = [conn EXCEPT ![c] = [NoConnection EXCEPT
                    !.local = "ACTIVE", !.address = address,
                    !.reconnect = reconnect]]
    /\ collector' = Append(collector, LoopEvent("CONNECTION_OPEN", c, "none"))
    /\ UNCHANGED <<pc, abort, timers, selectables, sel, now, fired,
                   selectVars, noteVars, thisCall,
                   exceptLoop>>

\* EventLoop.schedule before run().
AppSchedule(d) ==
    /\ pc = "idle" /\ UserTimers(Cur) < MaxUserTimers
    /\ Install(schedule(Cur, d, "none", "app", 0), "idle")
    /\ UNCHANGED <<now, selectVars, noteVars, thisCall,
                   exceptLoop>>

\* EventLoop.stop before run().
AppStop ==
    /\ pc = "idle" /\ ~abort
    /\ abort' = TRUE
    /\ UNCHANGED <<pc, collector, timers, selectables, sel, conn, now, fired,
                   selectVars, noteVars, thisCall,
                   exceptLoop>>

\* run() is called.
Run ==
    /\ pc = "idle"
    /\ pc' = "run"
    /\ startedEmpty' = redundant(Cur)
    /\ UNCHANGED <<abort, collector, timers, selectables, sel, conn, now,
                   fired, selectVars, procStart, overdue, drainAbort, waited,
                   thisCall,
                   exceptLoop>>

\* The while condition of run() holds no longer: run() returns.
RunReturn ==
    /\ pc = "run" /\ run_exits(Cur)
    /\ pc' = "returned"
    /\ UNCHANGED <<abort, collector, timers, selectables, sel, conn, now,
                   fired, selectVars, noteVars, thisCall,
                   exceptLoop>>

\* Another do_work(): events.process() is entered.
DoWork ==
    /\ pc = "run" /\ ~run_exits(Cur)
    /\ pc' = "collector"
    /\ procStart' = now
    /\ thisCall' = [queued |-> Len(collector), left |-> Len(collector),
                    timers |-> 0]
    /\ UNCHANGED <<abort, collector, timers, selectables, sel, conn, now,
                   fired, selectVars, overdue, drainAbort, startedEmpty,
                   waited, exceptLoop>>

\* Whether a handler called abort() during the drain.
NoteAbort(st) == IF st.abort /\ ~abort THEN "draining" ELSE drainAbort

\* A process() of the plain event source that dispatches only when a single
\* event is queued, and returns with the events queued otherwise.
Events_process_done_early(q) == Len(q) # 1

\* Events.process returns when collector.peek() gives None.
Events_process_done(q) == q = <<>>

\* Events.process: the head of the collector is dispatched and then popped.
ProcessEvent(act) ==
    /\ pc = "collector" /\ ~Events_process_done(collector)
    /\ LET st == dispatch(Cur, Head(collector), act)
       IN  /\ Install([st EXCEPT !.collector =
                          IF st.raised THEN @ ELSE Tail(@)], "collector")
           /\ drainAbort' = NoteAbort(st)
    /\ thisCall' = [thisCall EXCEPT !.left = IF @ > 0 THEN @ - 1 ELSE 0]
    /\ UNCHANGED <<now, selectVars, procStart, overdue, startedEmpty, waited,
                   exceptLoop>>

\* The collector is empty: ScheduledEvents.process turns to its timers.
ProcessDrained ==
    /\ pc = "collector" /\ Events_process_done(collector)
    /\ pc' = "timers"
    /\ UNCHANGED <<abort, collector, timers, selectables, sel, conn, now,
                   fired, selectVars, noteVars, thisCall,
                   exceptLoop>>

\* ScheduledEvents.process: the head of the heap is due; it is popped and its
\* event dispatched.  Among equal deadlines the heap's order is arbitrary.
ProcessTimer(t, act) ==
    /\ pc = "timers" /\ IsHead(timers, t) /\ ScheduledEvents_due(t)
    /\ LET popped == [Cur EXCEPT
                        !.timers = @ \ {t},
                        !.fired = Append(@, [id |-> t.id,
                            deadline |-> t.deadline, conn |-> t.conn,
                            subject |-> t.subject, made |-> t.made,
                            delay |-> t.delay, born |-> t.born, at |-> now])]
           st == dispatch(popped, LoopEvent("timer", t.conn, t.subject), act)
       IN  /\ Install(st, "timers")
           /\ drainAbort' = NoteAbort(st)
    /\ thisCall' = [thisCall EXCEPT !.timers = @ + 1]
    /\ UNCHANGED <<now, selectVars, procStart, overdue, startedEmpty, waited,
                   exceptLoop>>

\* No timer is due: process() returns, and do_work returns too if aborted.
ProcessDone ==
    /\ pc = "timers"
    /\ ~\E t \in timers : IsHead(timers, t) /\ ScheduledEvents_due(t)
    /\ pc' = after_process(abort)
    /\ overdue' = {t \in timers : t.deadline <= procStart}
    /\ procStart' = 0
    /\ thisCall' = NoCall
    /\ drainAbort' = IF drainAbort = "draining" THEN "left" ELSE drainAbort
    /\ UNCHANGED <<abort, collector, timers, selectables, sel, conn, now,
                   fired, selectVars, startedEmpty, waited, exceptLoop>>

\* One pass of the sweep that finds closed adapters: they are removed and
\* told so, and the sweep starts over.
SweepRemove(act) ==
    /\ pc = "sweep"
    /\ LET st == Polled(Cur)
           closed == SelectSeq(st.selectables, LAMBDA s : IsClosed(st, s))
       IN  /\ closed # <<>>
           /\ Install(RemoveClosed(st, closed, act), "sweep")
    /\ UNCHANGED <<now, selectVars, noteVars, thisCall,
                   exceptLoop>>

\* A pass that finds none: do_work returns if the loop is redundant and
\* otherwise calls select() with the lists of this pass.
SweepStable ==
    /\ pc = "sweep"
    /\ LET st == Polled(Cur)
       IN  /\ \A s \in Registered(st) : ~IsClosed(st, s)
           /\ Install(st, IF redundant(st) THEN "run" ELSE "select")
           /\ IF redundant(st)
              THEN UNCHANGED <<selectVars, waited>>
              ELSE /\ reading' = {s \in Registered(st) :
                                     Selectable_reading(sel[s])}
                   /\ writing' = {s \in Registered(st) :
                                     Selectable_writing(sel[s])}
                   /\ wait_until' = now + select_timeout(timers)
                   /\ waited' = TRUE
                   /\ UNCHANGED <<readable, writable>>
    /\ UNCHANGED <<now, procStart, overdue, drainAbort, startedEmpty,
                   thisCall,
                   exceptLoop>>

\* select() returns: with some ready adapters, or with none at the timeout.
Select(R, W) ==
    /\ pc = "select"
    /\ R \subseteq reading /\ W \subseteq writing
    /\ R \cup W # {} \/ now >= wait_until
    /\ readable' = R /\ writable' = W
    /\ reading' = {} /\ writing' = {} /\ wait_until' = 0
    /\ pc' = "io"
    /\ UNCHANGED <<abort, collector, timers, selectables, sel, conn, now,
                   fired, noteVars, thisCall,
                   exceptLoop>>

\* readable() of the next adapter that select() reported readable.
Readable(out) ==
    /\ pc = "io" /\ readable # {}
    /\ LET s == Smallest(readable)
       IN  /\ CanRead(Cur, s, out)
           /\ Install(Selectable_readable(Cur, s, out), "io")
           /\ readable' = readable \ {s}
    /\ UNCHANGED <<now, reading, writing, writable, wait_until, procStart,
                   overdue, drainAbort, startedEmpty, waited, thisCall,
                   exceptLoop>>

\* writable() of the next adapter that select() reported writable.
Writable(out) ==
    /\ pc = "io" /\ readable = {} /\ writable # {}
    /\ LET s == Smallest(writable)
       IN  /\ CanWrite(Cur, s, out)
           /\ Install(Selectable_writable(Cur, s, out), "io")
           /\ writable' = writable \ {s}
    /\ UNCHANGED <<now, reading, writing, readable, wait_until, procStart,
                   overdue, drainAbort, startedEmpty, waited, thisCall,
                   exceptLoop>>

\* Every ready adapter was served: do_work returns.
DoWorkDone ==
    /\ pc = "io" /\ readable = {} /\ writable = {}
    /\ pc' = "run"
    /\ UNCHANGED <<abort, collector, timers, selectables, sel, conn, now,
                   fired, selectVars, noteVars, thisCall,
                   exceptLoop>>

\* Time passes: between the reads of the clock in process(), in the sweep
\* and in select().
Tick ==
    /\ pc \in {"timers", "sweep", "select"}
    /\ now < MaxTime
    /\ now' = now + 1
    /\ UNCHANGED <<pc, abort, collector, timers, selectables, sel, conn,
                   fired, selectVars, noteVars, thisCall,
                   exceptLoop>>

\* The reactor of an application that connects and may close or stop.
NextLoop ==
    \/ \E c \in LoopConns, a \in {"Url", "Urls"}, r \in BOOLEAN :
          connect(c, a, r)
    \/ AppStop
    \/ Run
    \/ RunReturn
    \/ DoWork
    \/ \E act \in ConnActs : ProcessEvent(act)
    \/ ProcessDrained
    \/ \E t \in timers, act \in ConnActs : ProcessTimer(t, act)
    \/ ProcessDone
    \/ \E act \in ConnActs : SweepRemove(act)
    \/ SweepStable
    \/ \E R \in SUBSET reading, W \in SUBSET writing : Select(R, W)
    \/ \E out \in {"data", "remote_open", "remote_close", "bad_frame", "eof",
                   "error"} : Readable(out)
    \/ \E out \in {"sent", "part", "error"} : Writable(out)
    \/ DoWorkDone
    \/ Tick

\* The reactor of an application that only schedules timers, before run()
\* and from its timer handler, and may stop.
NextTimers ==
    \/ \E d \in 0..MaxTime : AppSchedule(d)
    \/ AppStop
    \/ Run
    \/ RunReturn
    \/ DoWork
    \/ ProcessDrained
    \/ \E t \in timers, act \in TimerActs : ProcessTimer(t, act)
    \/ ProcessDone
    \/ SweepStable
    \/ Select({}, {})
    \/ DoWorkDone
    \/ Tick

\* The reactor of an application that opens plain connections, without a
\* reconnect policy, and may close them: no timer is ever set, and the
\* clock plays no part.
PairActs == {a \in ConnActs : a.kind # "stop"}

NextPair ==
    \/ \E c \in Conns : connect(c, "Url", FALSE)
    \/ Run
    \/ RunReturn
    \/ DoWork
    \/ \E act \in PairActs : ProcessEvent(act)
    \/ ProcessDrained
    \/ ProcessDone
    \/ \E act \in PairActs : SweepRemove(act)
    \/ SweepStable
    \/ \E R \in SUBSET reading, W \in SUBSET writing : Select(R, W)
    \/ \E out \in {"data", "remote_open", "remote_close", "bad_frame", "eof",
                   "error"} : Readable(out)
    \/ \E out \in {"sent", "part", "error"} : Writable(out)
    \/ DoWorkDone

(***************************************************************************)
(* The reactor of proton_utils.py                                           *)
(***************************************************************************)

\* Selectable.removed of proton_utils.py: unless the connection closed
\* cleanly, the disconnected hook of the connection's context is called.
Selectable_removed_utils(st, s, act) ==
    LET c == st.sel[s].conn
        st1 == CountRemoval([st EXCEPT !.sel[s] = [Removed EXCEPT
                                        !.conn = c,
                                        !.removed = st.sel[s].removed + 1]], c)
    IN  IF closed_cleanly(st.conn[c]) THEN st1
        ELSE App_dispatch(st1, LoopEvent("disconnected", c, "none"), act)

\* Selectable.readable of proton_utils.py: as in proton_events.py, but a
\* socket.error of recv marks the read half alone.
Selectable_readable_utils(st, s, out) ==
    IF ~st.sel[s].tail_closed /\ out = "error"
    THEN [st EXCEPT !.sel[s].read_done = TRUE, !.sel[s].sockerr = "recv"]
    ELSE Selectable_readable(st, s, out)

RECURSIVE RemoveClosed_utils(_, _, _)
RemoveClosed_utils(st, closed, act) ==
    IF closed = <<>> THEN st
    ELSE LET s == Head(closed)
             off == [st EXCEPT !.selectables =
                        SelectSeq(st.selectables, LAMBDA x : x # s)]
         IN  RemoveClosed_utils(Selectable_removed_utils(off, s, act),
                                Tail(closed), act)

\* Runtime.connect before run(): the socket adapter is registered at once
\* and the connection opened.
UtilsConnect(c) ==
    /\ pc = "idle" /\ conn[c].local = "UNINIT"
    /\ conn' = [conn EXCEPT ![c] = [NoConnection EXCEPT
                    !.local = "ACTIVE", !.attempts = 1]]
    /\ sel' = Append(sel, NewSelectable(c))
    /\ selectables' = Append(selectables, Len(sel) + 1)
    /\ collector' = Append(collector, LoopEvent("CONNECTION_OPEN", c, "none"))
    /\ UNCHANGED <<pc, abort, timers, now, fired, selectVars, noteVars,
                   thisCall,
                   exceptLoop>>

\* The loop of run() is unconditional: events.process() is entered.
UtilsIterate ==
    /\ pc = "run"
    /\ pc' = "collector"
    /\ UNCHANGED <<abort, collector, timers, selectables, sel, conn, now,
                   fired, selectVars, noteVars, thisCall,
                   exceptLoop>>

\* Events.process: the head of the collector goes to the dispatchers, the
\* application's handler among them, and is popped.
UtilsProcessEvent(act) ==
    /\ pc = "collector" /\ collector # <<>>
    /\ LET st == App_dispatch(Cur, Head(collector), act)
       IN  /\ Install([st EXCEPT !.collector = Tail(@)], "collector")
           /\ drainAbort' = NoteAbort(st)
    /\ UNCHANGED <<now, selectVars, procStart, overdue, startedEmpty, waited,
                   thisCall,
                   exceptLoop>>

\* The collector is empty: run() returns if aborted.
UtilsProcessDone ==
    /\ pc = "collector" /\ collector = <<>>
    /\ pc' = IF abort THEN "returned" ELSE "sweep"
    /\ drainAbort' = IF drainAbort = "draining" THEN "left" ELSE drainAbort
    /\ UNCHANGED <<abort, collector, timers, selectables, sel, conn, now,
                   fired, selectVars, procStart, overdue, startedEmpty,
                   waited, thisCall,
                   exceptLoop>>

\* The sweep, once: closed adapters are removed and told so; run() returns
\* if no adapter is left and otherwise calls select() for 3 s.
UtilsSweep(act) ==
    /\ pc = "sweep"
    /\ LET polled == Polled(Cur)
           closed == SelectSeq(polled.selectables,
                               LAMBDA s : IsClosed(polled, s))
           st == RemoveClosed_utils(polled, closed, act)
       IN  /\ Install(st, IF st.selectables = <<>> THEN "returned"
                          ELSE "select")
           /\ IF st.selectables = <<>>
              THEN UNCHANGED <<selectVars, waited>>
              ELSE /\ reading' = {s \in Registered(polled) :
                                     Selectable_reading(sel[s])}
                   /\ writing' = {s \in Registered(polled) :
                                     Selectable_writing(sel[s])}
                   /\ wait_until' = now + SelectTimeout
                   /\ waited' = TRUE
                   /\ UNCHANGED <<readable, writable>>
    /\ UNCHANGED <<now, procStart, overdue, drainAbort, startedEmpty,
                   thisCall,
                   exceptLoop>>

\* readable() of the next adapter that select() reported readable.
UtilsReadable(out) ==
    /\ pc = "io" /\ readable # {}
    /\ LET s == Smallest(readable)
       IN  /\ CanRead(Cur, s, out)
           /\ Install(Selectable_readable_utils(Cur, s, out), "io")
           /\ readable' = readable \ {s}
    /\ UNCHANGED <<now, reading, writing, writable, wait_until, procStart,
                   overdue, drainAbort, startedEmpty, waited, thisCall,
                   exceptLoop>>

NextUtils ==
    \/ \E c \in LoopConns : UtilsConnect(c)
    \/ AppStop
    \/ Run
    \/ UtilsIterate
    \/ \E act \in ConnActs : UtilsProcessEvent(act)
    \/ UtilsProcessDone
    \/ \E act \in ConnActs : UtilsSweep(act)
    \/ \E R \in SUBSET reading, W \in SUBSET writing : Select(R, W)
    \/ \E out \in {"data", "remote_open", "remote_close", "bad_frame", "eof",
                   "error"} : UtilsReadable(out)
    \/ \E out \in {"sent", "part", "error"} : Writable(out)
    \/ DoWorkDone
    \/ Tick

(***************************************************************************)
(* Properties of the reactor                                                *)
(***************************************************************************)

\* C5: timers are dispatched in non-decreasing deadline order (of two timers
\* pending together, the one dispatched first has the deadline that is not
\* the later), never before their deadline, each at most once, and process()
\* leaves no timer behind that was due when it was entered.
C5_TimersInOrderOnTimeOnce ==
    /\ \A i \in 1..Len(fired) : fired[i].at >= fired[i].deadline
    /\ \A i, j \in 1..Len(fired) :
          (i < j /\ fired[j].born < i) => fired[i].deadline <= fired[j].deadline
    /\ \A i \in 1..Len(fired) : \A t \in timers :
          t.born < i => fired[i].deadline <= t.deadline
    /\ \A i, j \in 1..Len(fired) : i # j => fired[i].id # fired[j].id
    /\ \A i \in 1..Len(fired) : \A t \in timers : t.id # fired[i].id
    /\ overdue = {}

\* Two timers scheduled before run(), the later deadline first, were both
\* dispatched, in the order of their deadlines; the second exactly when due.
C5_Witness ==
    /\ Len(fired) = 2
    /\ fired[1].id = 2 /\ fired[2].id = 1
    /\ fired[1].born = 0 /\ fired[2].born = 0
    /\ fired[1].deadline < fired[2].deadline
    /\ fired[2].at = fired[2].deadline

\* C6: run() returns only when abort() was called or the event source is
\* empty (no queued event, no pending timer) and no selectable is registered;
\* called with nothing to wait for, it returns without entering select().
C6_RunReturnsOnlyWhenDone ==
    /\ pc = "returned" =>
          (abort \/ (collector = <<>> /\ timers = {} /\ selectables = <<>>))
    /\ startedEmpty => (~waited /\ pc \notin {"select", "io"})

\* The same for the reactor of proton_events.py, where it holds.
C6_EventsRunReturnsOnlyWhenDone ==
    /\ pc = "returned" => (abort \/ redundant(Cur))
    /\ (startedEmpty /\ pc # "idle") => (pc \in {"run", "returned"} /\ ~waited)

\* C7: once a handler has called abort() during the drain of the event
\* source, the iteration does nothing but finish the drain (no sweep, no
\* removal, no select(), no readable() or writable()), and run() then returns
\* without another iteration.
C7_AbortEndsIteration ==
    /\ drainAbort = "draining" => pc \in {"collector", "timers", "raised"}
    /\ drainAbort = "left" => pc \in {"run", "returned"}

\* run() has returned after an abort() during the drain, with a socket
\* adapter still registered and not removed.
C7_Witness ==
    /\ drainAbort = "left" /\ pc = "returned"
    /\ selectables # <<>>
    /\ \A s \in 1..Len(sel) : sel[s].removed = 0

\* The connector's pending timers for a connection.
ConnectorTimers(c) == {t \in timers : t.subject = "connector" /\ t.conn = c}

\* C9 as stated: after the policy was reset on CONNECTION_REMOTE_OPEN, the
\* first reconnect is delayed by 0.1 s.
C9_FirstReconnectAfterResetDelayed ==
    \A c \in Conns :
        (conn[c].wasReset /\ conn[c].discSince = 1) =>
            conn[c].lastDelay = BackoffFirst

\* C9 amended: after the policy was reset on CONNECTION_REMOTE_OPEN, the
\* first reconnect is immediate (no timer is scheduled), and it is the second
\* disconnect in a row that is delayed by 0.1 s.
C9_FirstReconnectAfterResetImmediate ==
    \A c \in Conns :
        /\ (conn[c].wasReset /\ conn[c].discSince = 1) =>
              (conn[c].lastDelay = 0 /\ ConnectorTimers(c) = {})
        /\ (conn[c].wasReset /\ conn[c].discSince = 2) =>
              conn[c].lastDelay = BackoffFirst

\* A connection was lost, reconnected, saw the peer's open, and was lost
\* again: the second reconnect was immediate like the first.
C9_Witness ==
    \E c \in Conns :
        /\ conn[c].wasReset /\ conn[c].discs = 2 /\ conn[c].discSince = 1
        /\ conn[c].lastDelay = 0 /\ conn[c].reconnects = 2

\* C10: with a reconnect policy every disconnected event is matched by one
\* connect attempt made or one pending timer of the connector, which is due
\* delay > 0 after the event and whose dispatch, never before that, makes the
\* attempt; without a policy there is neither.
C10_OneConnectPerDisconnect ==
    \A c \in Conns :
        /\ conn[c].reconnect =>
              conn[c].reconnects + Cardinality(ConnectorTimers(c)) = conn[c].discs
        /\ ~conn[c].reconnect =>
              (conn[c].reconnects = 0 /\ ConnectorTimers(c) = {})
        /\ \A t \in ConnectorTimers(c) :
              t.delay > 0 /\ t.deadline = t.made + t.delay
        /\ \A i \in 1..Len(fired) :
              fired[i].subject = "connector" =>
                  fired[i].at >= fired[i].made + fired[i].delay

\* Two disconnects in a row: an immediate reconnect, and one made by the
\* connector's timer, dispatched later than it was due.
C10_Witness ==
    \E c \in Conns :
        /\ conn[c].discs = 2 /\ conn[c].reconnects = 2
        /\ Len(fired) = 1 /\ fired[1].subject = "connector"
        /\ fired[1].delay = BackoffFirst
        /\ fired[1].at > fired[1].deadline

\* C13: the removal of a socket adapter dispatches a disconnected event for
\* its connection if and only if the connection is not closed on both sides
\* at that moment: the disconnected events of a connection are as many as
\* the removals that found it not cleanly closed.
C13_DisconnectedIffNotClean ==
    \A c \in Conns :
        /\ conn[c].discs = conn[c].uncleanRemovals
        /\ conn[c].cleanRemovals + conn[c].uncleanRemovals =
              Cardinality({s \in 1..Len(sel) :
                              sel[s].conn = c /\ sel[s].removed = 1})

\* A connection lost its first adapter to a failure, with a disconnected
\* event, and its second after a clean close, without one.
C13_Witness ==
    \E c \in Conns :
        /\ conn[c].uncleanRemovals = 1 /\ conn[c].cleanRemovals = 1
        /\ conn[c].discs = 1
        /\ closed_cleanly(conn[c])

\* C14: a socket.error of recv or of send marks both halves of the adapter
\* done.
C14_SocketErrorMarksBothHalves ==
    \A s \in 1..Len(sel) :
        (sel[s].removed = 0 /\ sel[s].sockerr # "no") =>
            (sel[s].read_done /\ sel[s].write_done)

\* The same for recv alone, which holds in proton_events.py.
C14_RecvErrorMarksBothHalves ==
    \A s \in 1..Len(sel) :
        (sel[s].removed = 0 /\ sel[s].sockerr = "recv") =>
            (sel[s].read_done /\ sel[s].write_done)

\* The adapter whose readable() or writable() the loop calls next.
Served ==
    IF pc = "io" /\ readable # {} THEN {Smallest(readable)}
    ELSE IF pc = "io" /\ writable # {} THEN {Smallest(writable)}
    ELSE {}

C16_RemovedOncePerClosed ==
    [][\A s \in 1..Len(sel) :
         LET listed == s \in Registered(Cur)
             closedNow == listed /\ Selectable_closed(Selectable_polled(sel[s]))
             swept == pc = "sweep" /\ now' = now
         IN  /\ sel'[s].removed \in {sel[s].removed, sel[s].removed + 1}
             /\ sel'[s].removed <= 1
             /\ sel'[s].removed # sel[s].removed => (swept /\ closedNow)
             /\ (swept /\ closedNow) =>
                    /\ sel'[s].removed = 1
                    /\ \A i \in 1..Len(selectables') : selectables'[i] # s
             /\ listed /\ ~(swept /\ closedNow) =>
                    \E i \in 1..Len(selectables') : selectables'[i] = s]_vars

\* Two adapters were closed, taken off the list and told removed() once each.
C16_Witness ==
    /\ Len(sel) = 2 /\ selectables = <<>>
    /\ \A s \in 1..Len(sel) : sel[s].removed = 1

\* C27: within one call of ScheduledEvents.process() a timer is dispatched
\* only after every collector event that was queued when the call started:
\* once the call has dispatched a timer, none of those events is left.
C27_TimersAfterQueuedEvents ==
    thisCall.timers > 0 => thisCall.left = 0

\* A call that found collector events queued has dispatched a timer.
C27_Witness ==
    /\ pc = "timers"
    /\ thisCall.queued > 0
    /\ thisCall.timers > 0

\* C31: at every moment at most one socket adapter bound to a connection
\* is registered with the reactor, whatever the sequence of open,
\* disconnect, reconnect at once and reconnect by timer: an adapter is
\* made for a connection only when none is registered for it.
C31_OneAdapterPerConnection ==
    /\ [](\A c \in Conns : Cardinality(Bound(Cur, c)) <= 1)
    /\ [][\A c \in Conns :
            conn'[c].attempts > conn[c].attempts =>
                /\ conn'[c].attempts = conn[c].attempts + 1
                /\ \A s \in Bound(Cur, c) :
                      \A i \in 1..Len(selectables') : selectables'[i] # s]_vars

\* The connection was opened, lost, reconnected at once, lost again and
\* reconnected by a timer, and its third adapter is the one registered.
C31_Witness ==
    /\ conn["c1"].attempts = 3
    /\ conn["c1"].reconnects = 2
    /\ \E i \in 1..Len(fired) : fired[i].subject = "connector"
    /\ Bound(Cur, "c1") = {3}

\* C25: with a timer pending, select() is entered with the timeout
\* min(3 s, next_interval), also when next_interval is 0.
C25_TimeoutIsMinOfDefaultAndInterval ==
    [][(pc = "sweep" /\ pc' = "select" /\ timers' # {}) =>
          wait_until' = now + Min(SelectTimeout, next_interval(timers'))]_vars

\* The same when the earliest deadline lies ahead.
C25_TimeoutWhenDeadlineAhead ==
    [][(pc = "sweep" /\ pc' = "select" /\ timers' # {}
          /\ next_interval(timers') > 0) =>
          wait_until' = now + Min(SelectTimeout, next_interval(timers'))]_vars

(***************************************************************************)
(* The scoped dispatcher                                                    *)
(***************************************************************************)

\* Bound of the scope model: the events the engine emits.
MaxScopeEvents == 2

Categories == {"connection", "session", "link", "delivery", "transport"}
ScopeNames == {"delivery", "link", "session", "connection"}

\* ScopedDispatcher.scopes: the objects of an event, finest first.
ScopeChain(cat) ==
    CASE cat = "connection" -> <<"connection">>
      [] cat = "session" -> <<"session", "connection">>
      [] cat = "link" -> <<"link", "session", "connection">>
      [] cat = "delivery" -> <<"delivery", "link", "session", "connection">>
      [] OTHER -> <<>>

\* ScopedDispatcher.dispatch (proton_events.py): the scopes whose context's
\* method is called, in the order of the calls.  cx[s] is "none" if the
\* object has no context, "plain" if its context lacks the method and
\* "handler" if it has it.
ScopedDispatcher_dispatch(cat, cx) ==
    SelectSeq(ScopeChain(cat), LAMBDA s : cx[s] = "handler")

\* ScopedDispatcher.dispatch (proton_utils.py): the context of the finest
\* object that has one is the only target; without the method the event is
\* unhandled.
ScopedDispatcher_dispatch_utils(cat, cx) ==
    LET found == SelectSeq(ScopeChain(cat), LAMBDA s : cx[s] # "none")
    IN  IF found # <<>> /\ cx[Head(found)] = "handler"
        THEN <<Head(found)>> ELSE <<>>

ScopeInit ==
    /\ sc_variant \in {"events", "utils"}
    /\ sc_ctx \in [ScopeNames -> {"none", "plain", "handler"}]
    /\ sc_queue = <<>>
    /\ sc_log = <<>>

ScopeIdle ==
    /\ sc_variant = "events"
    /\ sc_ctx = [s \in ScopeNames |-> "none"]
    /\ sc_queue = <<>>
    /\ sc_log = <<>>

\* The engine queues an event of some category.
ScopeEmit(cat) ==
    /\ Len(sc_queue) + Len(sc_log) < MaxScopeEvents
    /\ sc_queue' = Append(sc_queue, cat)
    /\ UNCHANGED <<sc_variant, sc_ctx, sc_log, exceptScope>>

\* The head event goes through the scoped dispatcher; the calls it makes
\* are logged.
ScopeDispatch ==
    /\ sc_queue # <<>>
    /\ LET cat == Head(sc_queue)
       IN  sc_log' = Append(sc_log,
              [category |-> cat,
               calls |-> IF sc_variant = "events"
                         THEN ScopedDispatcher_dispatch(cat, sc_ctx)
                         ELSE ScopedDispatcher_dispatch_utils(cat, sc_ctx)])
    /\ sc_queue' = Tail(sc_queue)
    /\ UNCHANGED <<sc_variant, sc_ctx, exceptScope>>

NextScope ==
    \/ \E cat \in Categories : ScopeEmit(cat)
    \/ ScopeDispatch

ScopeRank(s) ==
    CASE s = "delivery" -> 1 [] s = "link" -> 2 [] s = "session" -> 3
      [] s = "connection" -> 4

\* What a dispatched event's calls must be: every context on the chain with
\* the method once, no other, finest first.
CalledInScopeOrder(e) ==
    /\ \A s \in ScopeNames :
          Cardinality({i \in 1..Len(e.calls) : e.calls[i] = s}) =
              IF sc_ctx[s] = "handler"
                 /\ \E k \in 1..Len(ScopeChain(e.category)) :
                        ScopeChain(e.category)[k] = s
              THEN 1 ELSE 0
    /\ \A i, j \in 1..Len(e.calls) :
          i < j => ScopeRank(e.calls[i]) < ScopeRank(e.calls[j])

\* C11: for each event the scoped dispatcher calls the method of every
\* context on the event's chain that defines it, once each, finest scope
\* first (delivery, link, session, connection for a DELIVERY event).
C11_EveryContextFinestFirst ==
    \A n \in 1..Len(sc_log) : CalledInScopeOrder(sc_log[n])

\* The same for proton_events.py alone, where it holds.
C11_EventsEveryContextFinestFirst ==
    sc_variant = "events" => \A n \in 1..Len(sc_log) : CalledInScopeOrder(sc_log[n])

(***************************************************************************)
(* The event injector                                                       *)
(***************************************************************************)

\* Bound of the injector model: the trigger() calls, each by its own thread.
MaxTriggers == 2

\* The size of the read in EventInjector.readable.
PipeChunk == 512

Triggers == 1..MaxTriggers

\* A trigger that queues its event and leaves the pipe alone.
trigger_write_none(pipe) == pipe

\* EventInjector.trigger, its second statement: one byte into the pipe.
trigger_write(pipe) == pipe + 1

\* EventInjector.readable, its first statement: up to 512 bytes are read.
pipe_read(pipe) == IF pipe > PipeChunk THEN pipe - PipeChunk ELSE 0

InjInit ==
    /\ inj_queue = <<>>
    /\ inj_pipe = 0
    /\ inj_tpc = [e \in Triggers |-> "idle"]
    /\ inj_rpc = "process"
    /\ inj_count = [e \in Triggers |-> 0]
    /\ inj_age = [e \in Triggers |-> 0]

InjIdle == InjInit

\* trigger(e) on its thread: queue.put(event) ...
TriggerPut(e) ==
    /\ inj_tpc[e] = "idle"
    /\ inj_queue' = Append(inj_queue, e)
    /\ inj_tpc' = [inj_tpc EXCEPT ![e] = "put"]
    /\ UNCHANGED <<inj_pipe, inj_rpc, inj_count, inj_age, exceptInj>>

\* ... and then os.write(pipe[1], "!"), upon which trigger() returns.
TriggerWrite(e) ==
    /\ inj_tpc[e] = "put"
    /\ inj_pipe' = trigger_write(inj_pipe)
    /\ inj_tpc' = [inj_tpc EXCEPT ![e] = "done"]
    /\ UNCHANGED <<inj_queue, inj_rpc, inj_count, inj_age, exceptInj>>

\* The reactor thread: events.process() and the sweep are over, select() is
\* entered with the injector in the reading list (reading() is always true).
InjEnterSelect ==
    /\ inj_rpc = "process"
    /\ inj_rpc' = "select"
    /\ UNCHANGED <<inj_queue, inj_pipe, inj_tpc, inj_count, inj_age, exceptInj>>

\* select() returns: with the injector readable if the pipe holds a byte,
\* and otherwise at the timeout or for another selectable.
InjSelect ==
    /\ inj_rpc = "select"
    /\ inj_rpc' = IF inj_pipe > 0 THEN "read" ELSE "rest"
    /\ UNCHANGED <<inj_queue, inj_pipe, inj_tpc, inj_count, inj_age, exceptInj>>

\* EventInjector.readable: os.read(pipe[0], 512) ...
InjRead ==
    /\ inj_rpc = "read"
    /\ inj_pipe' = pipe_read(inj_pipe)
    /\ inj_rpc' = "drain"
    /\ UNCHANGED <<inj_queue, inj_tpc, inj_count, inj_age, exceptInj>>

\* ... while not queue.empty(): dispatch(queue.get()) ...
InjDispatch ==
    /\ inj_rpc = "drain" /\ inj_queue # <<>>
    /\ inj_count' = [inj_count EXCEPT ![Head(inj_queue)] = @ + 1]
    /\ inj_queue' = Tail(inj_queue)
    /\ UNCHANGED <<inj_pipe, inj_tpc, inj_rpc, inj_age, exceptInj>>

\* ... until the queue is found empty.
InjDrained ==
    /\ inj_rpc = "drain" /\ inj_queue = <<>>
    /\ inj_rpc' = "rest"
    /\ UNCHANGED <<inj_queue, inj_pipe, inj_tpc, inj_count, inj_age, exceptInj>>

\* The iteration ends and the next begins; an event whose trigger() has
\* returned and which is not dispatched yet has seen one more boundary.
InjIterationEnd ==
    /\ inj_rpc = "rest"
    /\ inj_rpc' = "process"
    /\ inj_age' = [e \in Triggers |->
                      IF inj_tpc[e] = "done" /\ inj_count[e] = 0 /\ inj_age[e] < 2
                      THEN inj_age[e] + 1 ELSE inj_age[e]]
    /\ UNCHANGED <<inj_queue, inj_pipe, inj_tpc, inj_count, exceptInj>>

NextInj ==
    \/ \E e \in Triggers : TriggerPut(e)
    \/ \E e \in Triggers : TriggerWrite(e)
    \/ InjEnterSelect
    \/ InjSelect
    \/ InjRead
    \/ InjDispatch
    \/ InjDrained
    \/ InjIterationEnd

InQueue(e) == \E i \in 1..Len(inj_queue) : inj_queue[i] = e

\* C12: under every interleaving of trigger() calls with each other and with
\* the reactor's readable(), an event is dispatched at most once and only
\* after it was queued; an event whose trigger() has returned is either
\* dispatched or still queued with the reactor woken (a byte in the pipe, or
\* the drain under way), and it is dispatched before a second iteration
\* boundary passes.
C12_TriggeredOnceWithinAnIteration ==
    \A e \in Triggers :
        /\ inj_count[e] <= 1
        /\ inj_count[e] = 1 => (inj_tpc[e] # "idle" /\ ~InQueue(e))
        /\ (inj_tpc[e] # "idle" /\ inj_count[e] = 0) => InQueue(e)
        /\ (inj_tpc[e] = "done" /\ inj_count[e] = 0) =>
              (inj_pipe > 0 \/ inj_rpc = "drain")
        /\ inj_age[e] <= 1

\* Every event was dispatched, one of them in the iteration after the one
\* in which its trigger() returned, while a byte is still in the pipe (the
\* drain took an event whose byte was written later).
C12_Witness ==
    /\ \A e \in Triggers : inj_count[e] = 1 /\ inj_tpc[e] = "done"
    /\ \E e \in Triggers : inj_age[e] = 1
    /\ inj_pipe > 0

\* ---- The injector closed and removed while threads trigger it.

\* EventInjector.closed: close() was called and the queue is empty.
EventInjector_closed_now(flag, queue) == flag /\ queue = <<>>

IcInit ==
    /\ ic_closed = FALSE
    /\ ic_state = "registered"
    /\ ic_seen = {}

IcIdle == IcInit

\* EventInjector.close, on any thread.
EventInjector_close ==
    /\ ~ic_closed
    /\ ic_closed' = TRUE
    /\ UNCHANGED <<ic_state, ic_seen, injVars, exceptIc>>

\* do_work, the first loop of the sweep: the injector's closed() is asked.
\* If it is true the injector goes to the closed list, and otherwise
\* select() is entered with the injector in the reading list.
IcSweep ==
    /\ inj_rpc = "process" /\ ic_state = "registered"
    /\ IF EventInjector_closed_now(ic_closed, inj_queue)
       THEN /\ ic_state' = "marked"
            /\ ic_seen' = {e \in Triggers : inj_tpc[e] # "idle"}
            /\ UNCHANGED inj_rpc
       ELSE /\ inj_rpc' = "select"
            /\ UNCHANGED <<ic_state, ic_seen>>
    /\ UNCHANGED <<ic_closed, inj_queue, inj_pipe, inj_tpc, inj_count, inj_age,
                   exceptIc>>

\* do_work, the second loop of the sweep: selectables.remove(s) and
\* s.removed(), which does nothing.  No later select() has the injector.
IcRemove ==
    /\ ic_state = "marked"
    /\ ic_state' = "removed"
    /\ UNCHANGED <<ic_closed, ic_seen, injVars, exceptIc>>

NextInjClose ==
    \/ \E e \in Triggers : TriggerPut(e)
    \/ \E e \in Triggers : TriggerWrite(e)
    \/ EventInjector_close
    \/ IcSweep
    \/ IcRemove
    \/ InjSelect
    \/ InjRead
    \/ InjDispatch
    \/ InjDrained
    \/ InjIterationEnd

\* C34: the injector is not removed while an event passed to trigger() is
\* undispatched: once it is off the reactor's list, every event that a
\* trigger() call has put was dispatched.
C34_NoEventLeftAtRemoval ==
    ic_state = "removed" =>
        \A e \in Triggers : inj_tpc[e] # "idle" => inj_count[e] = 1

\* What holds: the events put before closed() was found true were all
\* dispatched by then; only events put later are left behind.
C34_EventsBeforeClosedDispatched ==
    ic_state # "registered" => \A e \in ic_seen : inj_count[e] = 1

\* trigger() returned for an event that was put between the closed() check
\* and the removal: the injector is removed with the event in its queue and
\* the byte in its pipe.
C34_LostInTheRace ==
    /\ ic_state = "removed"
    /\ \E e \in Triggers :
          /\ inj_tpc[e] = "done" /\ inj_count[e] = 0 /\ e \notin ic_seen
          /\ InQueue(e) /\ inj_pipe > 0

(***************************************************************************)
(* The descriptors of the selectables                                       *)
(***************************************************************************)

\* Bound of the descriptor model: the events an injector holds at most.
MaxQueued == 2

\* The kinds of selectable a loop holds: a socket adapter (Selectable), an
\* Acceptor and an EventInjector.
Kinds == {"adapter", "acceptor", "injector"}

\* A selectable as made: a socket adapter and an acceptor hold one socket,
\* an injector the two ends of os.pipe().  closed is _closed, queued the
\* length of the injector's queue, fds the descriptors it holds open.
NewFd(k) ==
    [read_done |-> FALSE, write_done |-> FALSE, closed |-> FALSE,
     queued |-> 0, fds |-> IF k = "injector" THEN 2 ELSE 1]

\* closed() of each kind: what it returns and what it leaves of the
\* selectable.  Selectable.closed and Acceptor.closed close the socket
\* before they return true; EventInjector.closed only looks.
Selectable_closed_fd(s) ==
    IF Selectable_closed(s)
    THEN [ret |-> TRUE, s |-> [s EXCEPT !.fds = 0]]
    ELSE [ret |-> FALSE, s |-> s]

Acceptor_closed(s) ==
    IF s.closed
    THEN [ret |-> TRUE, s |-> [s EXCEPT !.fds = 0]]
    ELSE [ret |-> FALSE, s |-> s]

EventInjector_closed(s) ==
    [ret |-> s.closed /\ s.queued = 0, s |-> s]

closed(k, s) ==
    CASE k = "adapter" -> Selectable_closed_fd(s)
      [] k = "acceptor" -> Acceptor_closed(s)
      [] k = "injector" -> EventInjector_closed(s)

FdInit ==
    /\ fd_sel = [k \in Kinds |-> NewFd(k)]
    /\ fd_registered = Kinds

FdIdle == FdInit

\* Selectable.readable or writable ends one half of the socket adapter, or
\* both (recv fails).
FdHalfDone(r, w) ==
    /\ "adapter" \in fd_registered
    /\ r \/ w
    /\ fd_sel' = [fd_sel EXCEPT !["adapter"].read_done = @ \/ r,
                                !["adapter"].write_done = @ \/ w]
    /\ UNCHANGED <<fd_registered, exceptFd>>

\* Acceptor.close and EventInjector.close: _closed is set.
FdClose(k) ==
    /\ k \in {"acceptor", "injector"}
    /\ ~fd_sel[k].closed
    /\ fd_sel' = [fd_sel EXCEPT ![k].closed = TRUE]
    /\ UNCHANGED <<fd_registered, exceptFd>>

\* EventInjector.trigger: an event is put on the queue.
FdTrigger ==
    /\ fd_sel["injector"].queued < MaxQueued
    /\ fd_sel' = [fd_sel EXCEPT !["injector"].queued = @ + 1]
    /\ UNCHANGED <<fd_registered, exceptFd>>

\* EventInjector.readable: the queue is drained.
FdDrain ==
    /\ "injector" \in fd_registered
    /\ fd_sel["injector"].queued > 0
    /\ fd_sel' = [fd_sel EXCEPT !["injector"].queued = 0]
    /\ UNCHANGED <<fd_registered, exceptFd>>

\* The sweep of do_work asks a registered selectable closed() and takes it
\* off the list when that is true; removed() of an acceptor and of an
\* injector does nothing, and that of an adapter leaves the socket alone.
FdSweep(k) ==
    /\ k \in fd_registered
    /\ fd_sel' = [fd_sel EXCEPT ![k] = closed(k, fd_sel[k]).s]
    /\ fd_registered' = IF closed(k, fd_sel[k]).ret
                        THEN fd_registered \ {k} ELSE fd_registered
    /\ UNCHANGED exceptFd

NextFd ==
    \/ \E r, w \in BOOLEAN : FdHalfDone(r, w)
    \/ \E k \in Kinds : FdClose(k)
    \/ FdTrigger
    \/ FdDrain
    \/ \E k \in Kinds : FdSweep(k)

\* C17: a selectable of any kind that closed() reported closed, and that the
\* loop removed therefore, holds no open descriptor.
C17_ClosedReleasesDescriptors ==
    \A k \in Kinds \ fd_registered : fd_sel[k].fds = 0

\* The same for the selectables that hold a socket.
C17_ClosedReleasesSocket ==
    \A k \in {"adapter", "acceptor"} \ fd_registered : fd_sel[k].fds = 0

(***************************************************************************)
(* Incoming deliveries                                                      *)
(***************************************************************************)

\* Bound of the incoming model: the deliveries the peer sends.
MaxIn == 2

\* What on_message does: it returns, raises Reject, or calls self.accept()
\* on the delivery and returns.
MessageActs == {"return", "Reject", "accept"}

\* A delivery as its first frame leaves it.  readable, partial, updated and
\* settled (the peer's) are the engine's fields; local_state is the
\* disposition last set by update(); updates and settle_calls count the
\* update() and settle() calls, got the on_message calls, whose doing is act.
NewIncoming(part, stl) ==
    [readable |-> TRUE, partial |-> part, updated |-> FALSE, settled |-> stl,
     local_state |-> "NONE", updates |-> 0, settle_calls |-> 0,
     got |-> 0, act |-> "none", settled_calls |-> 0]

\* Delivery.update(state) followed by Delivery.settle().
update_settle(dv, state) ==
    [dv EXCEPT !.local_state = state, !.updates = @ + 1,
               !.settle_calls = @ + 1]

\* A handler for which auto_accept() outweighs Reject.
on_delivery_in_accepting(dv, act) ==
    IF dv.readable /\ ~dv.partial
    THEN update_settle([dv EXCEPT !.readable = FALSE, !.got = @ + 1,
                                  !.act = act], "ACCEPTED")
    ELSE dv

\* IncomingMessageHandler.on_delivery (and ReceiverHandler.delivery of
\* proton_utils.py, which has the same body): recv_msg advances the link,
\* so the delivery is readable no longer.
on_delivery_in(dv, act) ==
    IF dv.readable /\ ~dv.partial
    THEN LET m == [dv EXCEPT !.readable = FALSE, !.got = @ + 1, !.act = act]
         IN  CASE act = "Reject" -> update_settle(m, "REJECTED")
               [] act = "accept" ->
                     IF in_auto
                     THEN update_settle(update_settle(m, "ACCEPTED"), "ACCEPTED")
                     ELSE update_settle(m, "ACCEPTED")
               [] OTHER ->
                     IF in_auto THEN update_settle(m, "ACCEPTED") ELSE m
    ELSE IF dv.updated /\ dv.settled
         THEN [dv EXCEPT !.settled_calls = @ + 1]
         ELSE dv

RECURSIVE InTimes(_, _, _)
\* The handler invoked n times in a row on one event.
InTimes(n, dv, act) ==
    IF n = 0 THEN dv
    ELSE InTimes(n - 1, on_delivery_in(dv, act), act)

InInit ==
    /\ in_auto \in BOOLEAN
    /\ in_calls \in 1..2
    /\ in_dlvs = <<>>
    /\ in_collector = <<>>

InIdle ==
    /\ in_auto = TRUE
    /\ in_calls = 1
    /\ in_dlvs = <<>>
    /\ in_collector = <<>>

\* The first frame of a new delivery arrives, with the whole message or a
\* part of it, settled by the peer or not.
InTransfer(part, stl) ==
    /\ Len(in_dlvs) < MaxIn
    /\ in_dlvs' = Append(in_dlvs, NewIncoming(part, stl))
    /\ in_collector' = Append(in_collector, Len(in_dlvs) + 1)
    /\ UNCHANGED <<in_auto, in_calls, exceptIn>>

\* The last frame of a partial delivery arrives.
InMore(d) ==
    /\ d \in 1..Len(in_dlvs)
    /\ in_dlvs[d].partial
    /\ in_dlvs' = [in_dlvs EXCEPT ![d].partial = FALSE]
    /\ in_collector' = Append(in_collector, d)
    /\ UNCHANGED <<in_auto, in_calls, exceptIn>>

\* The peer settles a delivery that the receiver has read and not settled.
InPeerSettle(d) ==
    /\ d \in 1..Len(in_dlvs)
    /\ ~in_dlvs[d].settled /\ in_dlvs[d].got > 0
    /\ in_dlvs[d].settle_calls = 0
    /\ in_dlvs' = [in_dlvs EXCEPT ![d].updated = TRUE, ![d].settled = TRUE]
    /\ in_collector' = Append(in_collector, d)
    /\ UNCHANGED <<in_auto, in_calls, exceptIn>>

\* Events.process, one turn: the head DELIVERY event is dispatched.
InDispatch(act) ==
    /\ in_collector # <<>>
    /\ LET d == Head(in_collector)
       IN  in_dlvs' = [in_dlvs EXCEPT ![d] = InTimes(in_calls, @, act)]
    /\ in_collector' = Tail(in_collector)
    /\ UNCHANGED <<in_auto, in_calls, exceptIn>>

NextIn ==
    \/ \E part, stl \in BOOLEAN : InTransfer(part, stl)
    \/ \E d \in 1..MaxIn : InMore(d)
    \/ \E d \in 1..MaxIn : InPeerSettle(d)
    \/ \E act \in MessageActs : InDispatch(act)

\* A complete delivery handed to on_message has had one update() and one
\* settle(), to REJECTED if on_message raised Reject and to ACCEPTED if not.
OneDisposition(dv) ==
    /\ dv.updates = 1 /\ dv.settle_calls = 1
    /\ dv.local_state = IF dv.act = "Reject" THEN "REJECTED" ELSE "ACCEPTED"

\* C18 as stated: every complete incoming delivery that the handler took
\* has exactly one disposition update and is settled exactly once.
C18_OneDispositionForEvery ==
    \A d \in 1..Len(in_dlvs) :
        in_dlvs[d].got > 0 => OneDisposition(in_dlvs[d])

\* C18 amended: the same for the deliveries whose on_message raised Reject,
\* or returned without settling the delivery itself while auto_accept() is
\* true; Reject yields REJECTED whatever auto_accept() says.
C18_OneDispositionWhenRejectOrAuto ==
    \A d \in 1..Len(in_dlvs) :
        /\ in_dlvs[d].got <= 1
        /\ (in_dlvs[d].got > 0 /\
              (in_dlvs[d].act = "Reject" \/ (in_dlvs[d].act = "return" /\ in_auto)))
               => OneDisposition(in_dlvs[d])

\* With auto_accept() true and the handler invoked twice for each event,
\* one delivery was rejected and one accepted, each settled once.
C18_Witness ==
    /\ in_auto /\ in_calls = 2 /\ Len(in_dlvs) = 2
    /\ \E d, e \in 1..2 :
          /\ in_dlvs[d].act = "Reject" /\ in_dlvs[d].local_state = "REJECTED"
          /\ in_dlvs[e].act = "return" /\ in_dlvs[e].local_state = "ACCEPTED"
          /\ in_dlvs[d].settle_calls = 1 /\ in_dlvs[e].settle_calls = 1

(***************************************************************************)
(* The blocking sender                                                      *)
(***************************************************************************)

\* Bound of the blocking model: the send_msg calls.
MaxSends == 3

\* The delivery that send_msg of the module makes: unsettled, no outcome.
\* returned records that BlockingSender.send_msg returned for it.
NewSent == [settled |-> FALSE, remote_state |-> "NONE", returned |-> FALSE]

\* A pump that stops as soon as the peer's outcome is known.
pump_done_on_outcome(dv) == dv.remote_state # "NONE"

\* The condition that ends the loop of BlockingSender.send_msg.
pump_done(dv) == dv.settled

\* The endpoints of the blocking model and the one an event is about.
BlEndpoints == {"connection", "session", "link"}
EndpointOf(ev) ==
    CASE ev = "LINK_REMOTE_CLOSE" -> "link"
      [] ev = "SESSION_REMOTE_CLOSE" -> "session"
      [] OTHER -> "connection"

\* MessagingContext.on_session_remote_close, the handler of the session's
\* context: the connection is closed locally.
on_session_remote_close(local) == [local EXCEPT !["connection"] = "CLOSED"]

\* A blocking connection that takes every remote close for an error.
BlockingConnection_raises_always(ev, local) ==
    ev \in {"disconnected", "LINK_REMOTE_CLOSE", "CONNECTION_REMOTE_CLOSE"}

\* BlockingConnection's handlers: on_disconnected raises, and so do
\* on_link_remote_close and on_connection_remote_close, through closed(),
\* if the local half of the endpoint is active; it has no handler for
\* DELIVERY.
BlockingConnection_raises(ev, local) ==
    \/ ev = "disconnected"
    \/ ev \in {"LINK_REMOTE_CLOSE", "CONNECTION_REMOTE_CLOSE"}
          /\ local[EndpointOf(ev)] = "ACTIVE"

\* What one recv() of the pump brings: no news, an outcome of the delivery
\* in flight, its settlement, both, a close of the link, of the session or
\* of the connection, the settlement together with a close of the link; or
\* the socket fails or ends.
IoOutcomes ==
    {"nothing", "accept", "settle", "accept_settle", "link_close",
     "session_close", "connection_close", "settle_link_close", "fail"}

\* The conditions that end the loops of BlockingConnection.close and of
\* BlockingLink.close.
close_done(ep, remote) == remote[ep] # "ACTIVE"

BlInit ==
    /\ bl_pc = "idle"
    /\ bl_dlvs = <<>>
    /\ bl_collector = <<>>
    /\ bl_sock = "up"
    /\ bl_op = "none"
    /\ bl_local = [ep \in BlEndpoints |-> "ACTIVE"]
    /\ bl_remote = [ep \in BlEndpoints |-> "ACTIVE"]
    /\ bl_log = {}
    /\ bl_rets = {}

BlIdle == BlInit

\* BlockingSender.send_msg is called: send_msg of the module makes the
\* delivery and the loop is entered.
BlockingSender_send_msg ==
    /\ bl_pc = "idle" /\ Len(bl_dlvs) < MaxSends
    /\ bl_dlvs' = Append(bl_dlvs, NewSent)
    /\ bl_pc' = "test" /\ bl_op' = "send"
    /\ UNCHANGED <<bl_collector, bl_sock, bl_local, bl_remote, bl_log,
                   bl_rets, exceptBl>>

\* BlockingConnection.close is called: the connection is closed locally and
\* the loop is entered.
BlockingConnection_close ==
    /\ bl_pc = "idle" /\ bl_local["connection"] = "ACTIVE"
    /\ bl_local' = [bl_local EXCEPT !["connection"] = "CLOSED"]
    /\ bl_pc' = "test" /\ bl_op' = "connection"
    /\ UNCHANGED <<bl_dlvs, bl_collector, bl_sock, bl_remote, bl_log, bl_rets,
                   exceptBl>>

\* BlockingLink.close is called: the loop is entered, the link as it is.
BlockingLink_close ==
    /\ bl_pc = "idle"
    /\ bl_pc' = "test" /\ bl_op' = "link"
    /\ UNCHANGED <<bl_dlvs, bl_collector, bl_sock, bl_local, bl_remote, bl_log,
                   bl_rets, exceptBl>>

\* The application closes the proton link of a blocking link itself.
LinkLocalClose ==
    /\ bl_pc = "idle" /\ bl_local["link"] = "ACTIVE"
    /\ bl_local' = [bl_local EXCEPT !["link"] = "CLOSED"]
    /\ UNCHANGED <<bl_pc, bl_dlvs, bl_collector, bl_sock, bl_op, bl_remote,
                   bl_log, bl_rets, exceptBl>>

\* Whether the loop of the operation under way is over.
BlDone ==
    IF bl_op = "send" THEN pump_done(bl_dlvs[Len(bl_dlvs)])
    ELSE close_done(bl_op, bl_remote)

\* The loop condition of the operation under way: it returns if the
\* condition holds no longer and calls do_work otherwise.
BlTest ==
    /\ bl_pc = "test"
    /\ LET d == Len(bl_dlvs)
           done == BlDone
       IN  IF done
           THEN /\ bl_pc' = "idle" /\ bl_op' = "none"
                /\ bl_dlvs' = IF bl_op = "send"
                              THEN [bl_dlvs EXCEPT ![d].returned = TRUE]
                              ELSE bl_dlvs
                /\ bl_rets' = IF bl_op = "send" THEN bl_rets
                              ELSE bl_rets \cup
                                     {[ep |-> bl_op, local |-> bl_local[bl_op]]}
           ELSE /\ bl_pc' = "process"
                /\ UNCHANGED <<bl_dlvs, bl_op, bl_rets>>
    /\ UNCHANGED <<bl_collector, bl_sock, bl_local, bl_remote, bl_log, exceptBl>>

\* do_work, events.process(): the head event is dispatched through the
\* scoped dispatcher, to the session's context and to the blocking
\* connection; an exception of the handler leaves the blocking operation.
BlProcess ==
    /\ bl_pc = "process" /\ bl_collector # <<>>
    /\ LET ev == Head(bl_collector)
           raises == BlockingConnection_raises(ev, bl_local)
       IN  /\ IF raises
              THEN bl_pc' = "raised" /\ UNCHANGED bl_collector
              ELSE bl_pc' = "process" /\ bl_collector' = Tail(bl_collector)
           /\ bl_local' = IF ev = "SESSION_REMOTE_CLOSE"
                          THEN on_session_remote_close(bl_local)
                          ELSE bl_local
           /\ bl_log' = IF ev \in {"DELIVERY", "SESSION_REMOTE_CLOSE"}
                        THEN bl_log
                        ELSE bl_log \cup
                               {[ev |-> ev,
                                 active |-> bl_local[EndpointOf(ev)] = "ACTIVE",
                                 raised |-> raises]}
    /\ UNCHANGED <<bl_dlvs, bl_sock, bl_op, bl_remote, bl_rets, exceptBl>>

\* do_work, the sweep: an adapter with both halves done is removed, and
\* unless the connection closed cleanly its removed() unbinds the transport
\* and dispatches disconnected at once.  With no adapter left do_work
\* returns before select().
BlSweep ==
    /\ bl_pc = "process" /\ bl_collector = <<>>
    /\ LET clean == closed_cleanly([local |-> bl_local["connection"],
                                    remote |-> bl_remote["connection"]])
           raises == ~clean /\ BlockingConnection_raises("disconnected", bl_local)
       IN  IF bl_sock = "done"
           THEN /\ bl_sock' = "removed"
                /\ bl_pc' = IF raises THEN "raised" ELSE "test"
                /\ bl_log' = bl_log \cup {[ev |-> "removed", active |-> ~clean,
                                           raised |-> raises]}
           ELSE /\ bl_pc' = IF bl_sock = "removed" THEN "test" ELSE "select"
                /\ UNCHANGED <<bl_sock, bl_log>>
    /\ UNCHANGED <<bl_dlvs, bl_collector, bl_op, bl_local, bl_remote, bl_rets,
                   exceptBl>>

\* do_work, select() and the I/O: the transport reads what the peer sent
\* and the engine updates the delivery and the endpoints and queues the
\* events.
BlIo(out) ==
    /\ bl_pc = "select" /\ bl_sock = "up"
    /\ LET d == Len(bl_dlvs)
           outcome == out \in {"accept", "accept_settle"}
           settles == out \in {"settle", "accept_settle", "settle_link_close"}
           lclose == out \in {"link_close", "settle_link_close"}
           cclose == out = "connection_close"
           sclose == out = "session_close"
           q1 == IF outcome \/ settles
                 THEN Append(bl_collector, "DELIVERY") ELSE bl_collector
           q2 == IF lclose THEN Append(q1, "LINK_REMOTE_CLOSE")
                 ELSE IF sclose THEN Append(q1, "SESSION_REMOTE_CLOSE")
                 ELSE q1
       IN  /\ (outcome \/ settles) => (d > 0 /\ ~bl_dlvs[d].settled)
           /\ outcome => bl_dlvs[d].remote_state = "NONE"
           /\ lclose => bl_remote["link"] = "ACTIVE"
           /\ sclose => bl_remote["session"] = "ACTIVE"
           /\ cclose => bl_remote["connection"] = "ACTIVE"
           /\ bl_dlvs' = IF outcome \/ settles
                         THEN [bl_dlvs EXCEPT ![d] =
                                [@ EXCEPT
                                   !.remote_state = IF outcome THEN "ACCEPTED"
                                                    ELSE @,
                                   !.settled = settles]]
                         ELSE bl_dlvs
           /\ bl_collector' =
                 IF cclose THEN Append(q2, "CONNECTION_REMOTE_CLOSE") ELSE q2
           /\ bl_remote' = [ep \in BlEndpoints |->
                              IF (ep = "link" /\ lclose) \/
                                 (ep = "session" /\ sclose) \/
                                 (ep = "connection" /\ cclose)
                              THEN "CLOSED" ELSE bl_remote[ep]]
    /\ bl_sock' = IF out = "fail" THEN "done" ELSE bl_sock
    /\ bl_pc' = "test"
    /\ UNCHANGED <<bl_op, bl_local, bl_log, bl_rets, exceptBl>>

NextBlock ==
    \/ BlockingSender_send_msg
    \/ BlockingConnection_close
    \/ BlockingLink_close
    \/ LinkLocalClose
    \/ BlTest
    \/ BlProcess
    \/ BlSweep
    \/ \E out \in IoOutcomes : BlIo(out)

\* C20: send_msg has returned for settled deliveries only.
C20_ReturnsOnlyWhenSettled ==
    \A d \in 1..Len(bl_dlvs) : bl_dlvs[d].returned => bl_dlvs[d].settled

\* send_msg returned for one delivery after it settled, and left by an
\* exception for the next, which is unsettled.
C20_Witness ==
    /\ Len(bl_dlvs) = 2 /\ bl_pc = "raised"
    /\ bl_dlvs[1].returned /\ bl_dlvs[1].settled
    /\ ~bl_dlvs[2].returned /\ ~bl_dlvs[2].settled

\* C21 as stated: an operation that pumps the loop does not return normally
\* once a disconnection, or a remote close of an endpoint whose local half
\* is active, has happened: no such event is left queued when it returns.
C21_RaisedToThePumpingCaller ==
    bl_pc = "idle" =>
        \A i \in 1..Len(bl_collector) :
            ~BlockingConnection_raises(bl_collector[i], bl_local)

\* C21 amended: a remote close raises when it is dispatched if and only if
\* the local half of its endpoint is active then, the removal of the socket
\* adapter raises if and only if the connection is not cleanly closed, and
\* the blocking caller is left by an exception in exactly these cases.
C21_RaisesWhenDispatched ==
    /\ \A e \in bl_log : e.raised <=> e.active
    /\ bl_pc = "raised" <=> \E e \in bl_log : e.raised

\* A remote close of the connection after BlockingConnection.close raised
\* nothing, and a remote close of the still active link raised.
C21_Witness ==
    /\ [ev |-> "CONNECTION_REMOTE_CLOSE", active |-> FALSE, raised |-> FALSE]
          \in bl_log
    /\ [ev |-> "LINK_REMOTE_CLOSE", active |-> TRUE, raised |-> TRUE] \in bl_log
    /\ bl_pc = "raised"

\* C22: a close() of the blocking connection or of a blocking link that
\* returned had closed its endpoint locally, and the remote half was active
\* no longer.
C22_CloseIssuesLocalClose ==
    /\ \A r \in bl_rets : r.local = "CLOSED"
    /\ bl_pc = "idle" =>
          \A r \in bl_rets : bl_remote[r.ep] # "ACTIVE"

\* The same for BlockingConnection.close alone.
C22_ConnectionCloseIssuesLocalClose ==
    /\ \A r \in bl_rets : r.ep = "connection" => r.local = "CLOSED"
    /\ bl_pc = "idle" =>
          \A r \in bl_rets : bl_remote[r.ep] # "ACTIVE"

\* A blocking operation calls do_work with its condition unmet, no socket
\* adapter left and nothing queued: do_work returns at once, nothing can
\* change the condition, and the loop of the operation never ends.
Spinning ==
    /\ bl_pc \in {"test", "process"}
    /\ bl_sock = "removed" /\ bl_collector = <<>>
    /\ ~BlDone

\* C32: no blocking operation keeps calling do_work in a state where the
\* loop has no selectable left and an empty event source while its wait
\* condition is unmet: it returns or raises.
C32_ReturnsOrRaises == ~Spinning

\* What holds: the loop of an operation spins only after the connection
\* was closed cleanly; a socket lost otherwise raises.
C32_SpinsOnlyAfterCleanClose ==
    Spinning => closed_cleanly([local |-> bl_local["connection"],
                                remote |-> bl_remote["connection"]])

\* send_msg spins: the peer ended the session, which closed the connection
\* locally, then closed the connection and the socket.
C32_SpinningSend ==
    /\ Spinning /\ bl_op = "send"
    /\ bl_remote["session"] = "CLOSED"
    /\ \A r \in bl_rets : r.ep # "connection"

(***************************************************************************)
(* Addresses                                                                *)
(***************************************************************************)

\* An address is a sequence of tokens: the punctuation of the grammar and
\* words that stand for the runs of characters between it.  The words of
\* the model: a scheme, a user, a password, a host name, IPv6 literals with
\* and without a colon, and ports.
SchemeWords == {"amqp"}
UserWords == {"guest"}
PasswordWords == {"secret"}
Host4Words == {"example"}
Host6Words == {"::1", "fe.80"}
PortWords == {"0", "5672", "05672"}

\* int(port) and "%s" % port.
PortValue(w) == CASE w = "0" -> 0 [] w = "5672" -> 5672 [] w = "05672" -> 5672
PortText(n) == IF n = 0 THEN "0" ELSE "5672"

\* ':' in host.
HasColon(w) == w = "::1"

\* The strings of the grammar
\* [scheme://][user[/password]@](host4|[host6])[:port].
Grammar ==
    {sch \o usr \o hst \o prt :
        sch \in {<<>>} \cup {<<w, "://">> : w \in SchemeWords},
        usr \in {<<>>} \cup {<<u, "@">> : u \in UserWords}
                 \cup {<<u, "/", pw, "@">> : u \in UserWords, pw \in PasswordWords},
        hst \in {<<w>> : w \in Host4Words} \cup {<<"[", w, "]">> : w \in Host6Words},
        prt \in {<<>>} \cup {<<":", w>> : w \in PortWords}}

NoUrl == [scheme |-> "None", user |-> "None", password |-> "None",
          host |-> "None", port |-> [some |-> FALSE, n |-> 0]]

Rest(q, n) == SubSeq(q, n + 1, Len(q))
At(q, i) == IF i >= 1 /\ i <= Len(q) THEN q[i] ELSE "end"

\* Url.__init__: the groups of Url.RE, left to right; host is host4 or
\* host6 and port is int(port) if there is one.
Url_init(value) ==
    LET hasScheme == At(value, 2) = "://"
        scheme == IF hasScheme THEN value[1] ELSE "None"
        r1 == IF hasScheme THEN Rest(value, 2) ELSE value
        hasPw == At(r1, 2) = "/" /\ At(r1, 4) = "@"
        hasUser == hasPw \/ At(r1, 2) = "@"
        user == IF hasUser THEN r1[1] ELSE "None"
        password == IF hasPw THEN r1[3] ELSE "None"
        r2 == IF hasPw THEN Rest(r1, 4) ELSE IF hasUser THEN Rest(r1, 2) ELSE r1
        bracketed == At(r2, 1) = "["
        host == IF bracketed THEN r2[2] ELSE r2[1]
        r3 == IF bracketed THEN Rest(r2, 3) ELSE Rest(r2, 1)
        hasPort == At(r3, 1) = ":"
    IN  [scheme |-> scheme, user |-> user, password |-> password, host |-> host,
         port |-> IF hasPort THEN [some |-> TRUE, n |-> PortValue(r3[2])]
                  ELSE [some |-> FALSE, n |-> 0]]

\* Url.__str__: the '@' is appended with the password, the brackets are put
\* around a host that holds a colon, and a port that is None or 0 is left
\* out.
Url_str(u) ==
    LET s1 == IF u.scheme # "None" THEN <<u.scheme, "://">> ELSE <<>>
        s2 == IF u.user # "None"
              THEN s1 \o <<u.user>> \o
                   (IF u.password # "None" THEN <<"/", u.password, "@">> ELSE <<>>)
              ELSE s1
        s3 == IF ~HasColon(u.host) THEN s2 \o <<u.host>>
              ELSE s2 \o <<"[", u.host, "]">>
    IN  IF u.port.some /\ u.port.n # 0
        THEN s3 \o <<":", PortText(u.port.n)>>
        ELSE s3

UrlInit ==
    /\ url_in \in Grammar
    /\ url_parsed = NoUrl
    /\ url_out = <<>>
    /\ url_stage = "given"

UrlIdle ==
    /\ url_in = <<"example">>
    /\ url_parsed = NoUrl
    /\ url_out = <<>>
    /\ url_stage = "given"

\* Url(s).
UrlParse ==
    /\ url_stage = "given"
    /\ url_parsed' = Url_init(url_in)
    /\ url_stage' = "parsed"
    /\ UNCHANGED <<url_in, url_out, exceptUrl>>

\* str(Url(s)).
UrlPrint ==
    /\ url_stage = "parsed"
    /\ url_out' = Url_str(url_parsed)
    /\ url_stage' = "printed"
    /\ UNCHANGED <<url_in, url_parsed, exceptUrl>>

NextUrl ==
    \/ UrlParse
    \/ UrlPrint

\* C23: str(Url(s)) = s for every s of the grammar.
C23_RoundTrip ==
    url_stage = "printed" => url_out = url_in

\* The round trip of the addresses that have a password if they have a
\* user, whose bracketed host holds a colon and whose port, if any, is
\* written without leading zeros and is not 0.
C23_RoundTripOfPlainAddresses ==
    (/\ url_stage = "printed"
     /\ url_parsed.user # "None" => url_parsed.password # "None"
     /\ At(url_in, Len(url_in)) = "]" \/ At(url_in, Len(url_in) - 2) = "]"
           => HasColon(url_parsed.host)
     /\ At(url_in, Len(url_in) - 1) = ":" => url_in[Len(url_in)] = "5672")
        => url_out = url_in

(***************************************************************************)
(* Address lists                                                            *)
(***************************************************************************)

\* Bounds of the address-list model: the addresses of a list and the calls
\* of next().
MaxUrls == 3
MaxNextCalls == 4

UrlHosts == {"a", "b", "c"}

\* Url.next: the (host, port) tuple of one address.
Url_next(h) == [kind |-> "tuple", host |-> h]

\* What the iterator over Urls.values yields: the Url object itself.
Urls_yield(h) == [kind |-> "Url", host |-> h]

\* Urls.next: the next value of the list iterator; at StopIteration the
\* iterator is made anew and its first value returned.  The result is the
\* returned value and the new position.
Urls_next(values, i) ==
    IF i < Len(values)
    THEN [ret |-> Urls_yield(values[i + 1]), i |-> i + 1]
    ELSE [ret |-> Urls_yield(values[1]), i |-> 1]

\* 'host, port = v' of Connector._connect: a tuple of two is unpacked; a Url
\* is iterated, yields its tuple without end, and the unpacking raises
\* ValueError.
Unpack(v) == IF v.kind = "tuple" THEN "unpacked" ELSE "ValueError"

UrlsInit ==
    /\ urls_values \in UNION {[1..n -> UrlHosts] : n \in 1..MaxUrls}
    /\ urls_i = 0
    /\ urls_ret = <<>>
    /\ urls_unpacked = <<>>

UrlsIdle ==
    /\ urls_values = <<"a">>
    /\ urls_i = 0
    /\ urls_ret = <<>>
    /\ urls_unpacked = <<>>

\* connection.address.next() in Connector._connect, with the unpacking of
\* its result.
UrlsNext ==
    /\ Len(urls_ret) < MaxNextCalls
    /\ LET r == Urls_next(urls_values, urls_i)
       IN  /\ urls_i' = r.i
           /\ urls_ret' = Append(urls_ret, r.ret)
           /\ urls_unpacked' = Append(urls_unpacked, Unpack(r.ret))
    /\ UNCHANGED <<urls_values, exceptUrls>>

NextUrls == UrlsNext

\* The k-th call of next() returned address number (k-1) mod n.
RoundRobin ==
    \A k \in 1..Len(urls_ret) :
        urls_ret[k].host = urls_values[((k - 1) % Len(urls_values)) + 1]

\* C24: the k-th next() returns the (host, port) tuple of address number
\* (k-1) mod n, which the connector can unpack.
C24_RoundRobinTuples ==
    /\ RoundRobin
    /\ \A k \in 1..Len(urls_ret) :
          urls_ret[k].kind = "tuple" /\ urls_unpacked[k] = "unpacked"

\* The round-robin order alone.
C24_RoundRobinOrder == RoundRobin

(***************************************************************************)
(* The plain event source                                                   *)
(***************************************************************************)

\* Bounds of the event-source model: the events the engine emits and the
\* times a handler raises.
MaxEmitted == 4
MaxRaises == 2

\* Events.dispatchers as EventLoop makes it: the scoped dispatcher, the
\* connector and a handler of the application.
Dispatchers == <<"scoped", "connector", "handler">>

\* What a dispatcher's handler does with an event: it returns, it makes the
\* engine emit another event and returns, or it raises.
HandlerOutcomes == {"return", "emit", "raise"}

\* A collector whose pop drops everything queued.
Collector_pop_all(q) == <<>>

\* collector.pop() after the dispatch of the head.
Collector_pop(q) == Tail(q)

\* A process() that pops the event also when a handler raised on it.
Events_process_pops_raised(out, d) == out = "raise" \/ d = Len(Dispatchers)

\* Events.process reaches collector.pop() when dispatch has returned: the
\* last dispatcher was called and nothing was raised.
Events_process_pops(out, d) == out # "raise" /\ d = Len(Dispatchers)

EvInit ==
    /\ ev_pc = "out"
    /\ ev_collector = <<>>
    /\ ev_emitted = 0
    /\ ev_during = 0
    /\ ev_raises = 0
    /\ ev_d = 0
    /\ ev_log = <<>>

EvIdle == EvInit

\* Outside process() the engine emits an event (I/O, or a call of the
\* application).
EvEmit ==
    /\ ev_pc # "process"
    /\ ev_emitted < MaxEmitted
    /\ ev_emitted' = ev_emitted + 1
    /\ ev_collector' = Append(ev_collector, ev_emitted + 1)
    /\ ev_pc' = IF ev_pc = "returned" THEN "out" ELSE ev_pc
    /\ UNCHANGED <<ev_during, ev_raises, ev_d, ev_log, exceptEv>>

\* Events.process() is called (again, when the caller caught what the last
\* call raised).
EvProcess ==
    /\ ev_pc # "process"
    /\ ev_pc' = "process"
    /\ UNCHANGED <<ev_collector, ev_emitted, ev_during, ev_raises, ev_d,
                   ev_log, exceptEv>>

\* collector.peek() gives an event: its dispatch starts at the first
\* dispatcher.
EvPeek ==
    /\ ev_pc = "process" /\ ev_d = 0 /\ ev_collector # <<>>
    /\ ev_d' = 1
    /\ UNCHANGED <<ev_pc, ev_collector, ev_emitted, ev_during, ev_raises,
                   ev_log, exceptEv>>

\* Events.dispatch, one turn of its loop: the next dispatcher gets the
\* head event.  When its handler returns the loop goes on, and after the
\* last dispatcher the head is popped; when it raises, process() is left with
\* the head still in the collector.
EvDispatch(out) ==
    /\ ev_pc = "process" /\ ev_d > 0
    /\ out = "emit" => ev_emitted < MaxEmitted
    /\ out = "raise" => ev_raises < MaxRaises
    /\ ev_log' = Append(ev_log, [ev |-> Head(ev_collector),
                                 d |-> Dispatchers[ev_d],
                                 raised |-> out = "raise"])
    /\ LET q == IF out = "emit" THEN Append(ev_collector, ev_emitted + 1)
                ELSE ev_collector
       IN  ev_collector' = IF Events_process_pops(out, ev_d)
                           THEN Collector_pop(q) ELSE q
    /\ ev_emitted' = IF out = "emit" THEN ev_emitted + 1 ELSE ev_emitted
    /\ ev_during' = IF out = "emit" THEN ev_during + 1 ELSE ev_during
    /\ ev_raises' = IF out = "raise" THEN ev_raises + 1 ELSE ev_raises
    /\ ev_d' = IF out = "raise" \/ ev_d = Len(Dispatchers) THEN 0
               ELSE ev_d + 1
    /\ ev_pc' = IF out = "raise" THEN "raised" ELSE "process"
    /\ UNCHANGED exceptEv

\* collector.peek() gives None: process() returns.
EvReturn ==
    /\ ev_pc = "process" /\ ev_d = 0 /\ ev_collector = <<>>
    /\ ev_pc' = "returned"
    /\ UNCHANGED <<ev_collector, ev_emitted, ev_during, ev_raises, ev_d,
                   ev_log, exceptEv>>

NextEv ==
    \/ EvEmit
    \/ EvProcess
    \/ EvPeek
    \/ \E out \in HandlerOutcomes : EvDispatch(out)
    \/ EvReturn

\* The calls made are those of the emitted events in the order of emission,
\* each event going once to every dispatcher in chain order.
InOrderOnceEach ==
    LET n == Len(Dispatchers)
    IN  \A i \in 1..Len(ev_log) :
            /\ ev_log[i].ev = ((i - 1) \div n) + 1
            /\ ev_log[i].d = Dispatchers[((i - 1) % n) + 1]

\* When process() has returned the collector is empty and every emitted
\* event has gone to every dispatcher.
DrainedOnReturn ==
    ev_pc = "returned" =>
        /\ ev_collector = <<>>
        /\ \A e \in 1..ev_emitted : \A k \in 1..Len(Dispatchers) :
              \E i \in 1..Len(ev_log) :
                  ev_log[i].ev = e /\ ev_log[i].d = Dispatchers[k]

\* C26: the events are dispatched in the order of emission, each exactly
\* once to every dispatcher in chain order, events emitted during the drain
\* included, and the collector is empty when process() returns.
C26_InOrderOnceToEveryDispatcher ==
    InOrderOnceEach /\ DrainedOnReturn

\* C26, as the code has it: the events are dispatched in the order of
\* emission and the collector is drained when process() returns; each event
\* goes exactly once to every dispatcher as long as no handler has raised
\* (the event a handler raised on stays queued and is dispatched again from
\* the head of the chain by the next call).
C26_InOrderOnceUnlessRaised ==
    /\ \A i, j \in 1..Len(ev_log) : i < j => ev_log[i].ev <= ev_log[j].ev
    /\ ev_raises = 0 => InOrderOnceEach
    /\ DrainedOnReturn

\* process() returned after a drain in which handlers had emitted events
\* and none had raised.
C26_Witness ==
    /\ ev_pc = "returned"
    /\ ev_raises = 0
    /\ ev_during > 1
    /\ ev_emitted = MaxEmitted
    /\ Len(ev_log) = Len(Dispatchers) * MaxEmitted

\* The position of a dispatcher in the chain.
ChainIndex(d) == CHOOSE k \in 1..Len(Dispatchers) : Dispatchers[k] = d

\* The events popped so far: the emitted ones that are queued no longer.
Popped == {e \in 1..ev_emitted :
              \A i \in 1..Len(ev_collector) : ev_collector[i] # e}

\* C33: an event is popped only after one pass in which every dispatcher of
\* the chain handled it and none raised; when a handler raises the event
\* stays at the head of the collector, the rest of the chain is not called,
\* and the next dispatch is that of the same event to the first dispatcher,
\* so that the dispatchers before the raising one see it again.
C33_PoppedOnlyAfterWholeChain ==
    LET n == Len(Dispatchers)
    IN  /\ \A e \in Popped :
              \E i \in 1..Len(ev_log) :
                  /\ i + n - 1 <= Len(ev_log)
                  /\ \A k \in 1..n :
                        /\ ev_log[i + k - 1].ev = e
                        /\ ev_log[i + k - 1].d = Dispatchers[k]
                        /\ ~ev_log[i + k - 1].raised
        /\ ev_pc = "raised" =>
              /\ ev_log[Len(ev_log)].raised
              /\ ev_collector # <<>>
              /\ Head(ev_collector) = ev_log[Len(ev_log)].ev
        /\ \A i \in 1..(Len(ev_log) - 1) :
              IF ev_log[i].raised
              THEN /\ ev_log[i + 1].ev = ev_log[i].ev
                   /\ ev_log[i + 1].d = Dispatchers[1]
              ELSE IF ev_log[i].d = Dispatchers[n]
              THEN /\ ev_log[i + 1].ev = ev_log[i].ev + 1
                   /\ ev_log[i + 1].d = Dispatchers[1]
              ELSE /\ ev_log[i + 1].ev = ev_log[i].ev
                   /\ ev_log[i + 1].d = Dispatchers[ChainIndex(ev_log[i].d) + 1]

\* The second dispatcher raised on the first event; the next process()
\* dispatched it to the whole chain, the first dispatcher seeing it twice,
\* and popped it.
C33_Witness ==
    /\ Len(ev_log) = 5
    /\ \A i \in 1..5 : ev_log[i].ev = 1
    /\ [i \in 1..5 |-> ev_log[i].d] =
           <<"scoped", "connector", "scoped", "connector", "handler">>
    /\ [i \in 1..5 |-> ev_log[i].raised] = <<FALSE, TRUE, FALSE, FALSE, FALSE>>
    /\ 1 \in Popped

(***************************************************************************)
(* The output side of a socket adapter                                      *)
(***************************************************************************)

\* Bounds of the output model: the bytes the transport produces in all and
\* in one go.
MaxBytes == 4
MaxChunk == 2

\* What socket.send does with the p bytes offered: it accepts the first n
\* of them, or raises socket.error.
SendOutcomes(p) ==
    [n : 1..p, error : {FALSE}] \cup {[n |-> 0, error |-> TRUE]}

NoWrite == [offered |-> 0, accepted |-> 0, popped |-> 0, failed |-> FALSE]

\* transport.pending(): the bytes waiting, negative once the head is closed
\* and drained.
Transport_pending(w) ==
    IF w.head = "closed" /\ w.pending = <<>> THEN -1 ELSE Len(w.pending)

\* A writable() that pops all it offered, whatever the socket took.
transport_pop_offered(p, n) == p

\* transport.pop(n) after socket.send returned n.
transport_pop(p, n) == n

\* Selectable.writable with the socket answering out.
Selectable_writable_bytes(w, out) ==
    LET p == Transport_pending(w)
    IN  IF p > 0
        THEN IF out.error
             THEN [w EXCEPT !.done = TRUE,
                            !.last = [offered |-> p, accepted |-> 0,
                                      popped |-> 0, failed |-> TRUE]]
             ELSE [w EXCEPT
                     !.sent = @ \o SubSeq(w.pending, 1, out.n),
                     !.pending = SubSeq(@, transport_pop(p, out.n) + 1, Len(@)),
                     !.last = [offered |-> p, accepted |-> out.n,
                               popped |-> transport_pop(p, out.n),
                               failed |-> FALSE],
                     !.shorts = IF out.n < p THEN @ + 1 ELSE @]
        ELSE IF p < 0 THEN [w EXCEPT !.done = TRUE, !.last = NoWrite]
        ELSE [w EXCEPT !.last = NoWrite]

Wr == [pending |-> wr_pending, head |-> wr_head, sent |-> wr_sent,
       done |-> wr_done, last |-> wr_last, shorts |-> wr_shorts]

WrInit ==
    /\ wr_stream = 0
    /\ wr_pending = <<>>
    /\ wr_head = "open"
    /\ wr_sent = <<>>
    /\ wr_done = FALSE
    /\ wr_last = NoWrite
    /\ wr_shorts = 0

WrIdle == WrInit

\* The engine produces k more bytes of output.
WrProduce(k) ==
    /\ wr_head = "open"
    /\ wr_stream + k <= MaxBytes
    /\ wr_stream' = wr_stream + k
    /\ wr_pending' = wr_pending \o [i \in 1..k |-> wr_stream + i]
    /\ UNCHANGED <<wr_head, wr_sent, wr_done, wr_last, wr_shorts, exceptWr>>

\* The engine closes the head of the transport.
WrCloseHead ==
    /\ wr_head = "open"
    /\ wr_head' = "closed"
    /\ UNCHANGED <<wr_stream, wr_pending, wr_sent, wr_done, wr_last, wr_shorts,
                   exceptWr>>

\* select() reported the socket writable: writable() is called.  The adapter
\* was in the writing set only with write_done false.
WrWritable(out) ==
    /\ ~wr_done
    /\ LET w == Selectable_writable_bytes(Wr, out)
       IN  /\ wr_pending' = w.pending
           /\ wr_sent' = w.sent
           /\ wr_done' = w.done
           /\ wr_last' = w.last
           /\ wr_shorts' = w.shorts
    /\ UNCHANGED <<wr_stream, wr_head, exceptWr>>

NextWr ==
    \/ \E k \in 1..MaxChunk : WrProduce(k)
    \/ WrCloseHead
    \/ \E out \in SendOutcomes(Transport_pending(Wr)) : WrWritable(out)

\* C28: whatever part of the offered bytes the socket accepts, the bytes it
\* has accepted followed by the bytes still pending are the transport's
\* output stream: none lost, none twice, in order.  Every writable() pops
\* exactly what the socket reported as sent, and a failed send pops nothing
\* and sets write_done.
C28_StreamPreservedAcrossShortSends ==
    /\ wr_sent \o wr_pending = [i \in 1..wr_stream |-> i]
    /\ wr_last.popped = wr_last.accepted
    /\ wr_last.failed => (wr_last.popped = 0 /\ wr_done)

\* After two short sends the whole stream has reached the socket.
C28_Witness ==
    /\ wr_shorts >= 2
    /\ wr_stream = MaxBytes
    /\ Len(wr_sent) = MaxBytes

(***************************************************************************)
(* The sweep before select()                                                *)
(***************************************************************************)

\* Bound of the sweep model: the selectables ever made.
MaxSel == 3

\* A socket adapter as Selectable.__init__ and connect() or accept() leave
\* it, with the output of the opening connection pending or not, and an
\* acceptor as Acceptor.__init__ leaves it.
NewSocket(pending) ==
    [kind |-> "socket", read_done |-> FALSE, write_done |-> FALSE,
     closed_flag |-> FALSE, pending |-> pending]
NewAcceptor ==
    [kind |-> "acceptor", read_done |-> FALSE, write_done |-> FALSE,
     closed_flag |-> FALSE, pending |-> FALSE]

\* reading(), writing() and closed() of a socket adapter and of an acceptor.
sel_reading(s) ==
    IF s.kind = "acceptor" THEN ~s.closed_flag ELSE ~s.read_done
sel_writing(s) ==
    IF s.kind = "acceptor" THEN FALSE ELSE ~s.write_done /\ s.pending
sel_closed(s) ==
    IF s.kind = "acceptor" THEN s.closed_flag
    ELSE s.read_done /\ s.write_done

\* What a handler of the application may do when it is called: nothing,
\* close() the acceptors, or connect(), which registers a new socket adapter
\* and opens its connection.
QActs == {"none", "close_acceptor", "connect"}

Q == [sel |-> q_sel, selectables |-> q_selectables, added |-> q_added]

QRegistered(st) == {st.selectables[i] : i \in 1..Len(st.selectables)}

\* The handler of the application, called with act to do.
QHandler(st, act, during) ==
    CASE act = "close_acceptor" ->
            [st EXCEPT !.sel = [i \in 1..Len(st.sel) |->
                IF st.sel[i].kind = "acceptor"
                THEN [st.sel[i] EXCEPT !.closed_flag = TRUE] ELSE st.sel[i]]]
      [] act = "connect" /\ Len(st.sel) < MaxSel ->
            [st EXCEPT !.sel = Append(@, NewSocket(TRUE)),
                       !.selectables = Append(@, Len(st.sel) + 1),
                       !.added = IF during THEN @ \cup {Len(st.sel) + 1}
                                 ELSE @]
      [] OTHER -> st

\* for s in closed: selectables.remove(s); s.removed().  The removed()
\* of a socket adapter dispatches disconnected to the handler; that of an
\* acceptor does nothing.
RECURSIVE QRemoveClosed(_, _, _)
QRemoveClosed(st, gone, act) ==
    IF gone = <<>> THEN st
    ELSE LET s == Head(gone)
             off == [st EXCEPT !.selectables =
                        SelectSeq(st.selectables, LAMBDA x : x # s)]
             told == IF st.sel[s].kind = "socket"
                     THEN QHandler(off, act, TRUE) ELSE off
         IN  QRemoveClosed(told, Tail(gone), act)

\* The sweep ends after a pass that found nothing closed (do_work), or
\* after its only pass (run of proton_utils.py).
sweep_over(v, found) == v = "utils" \/ found = 0

QInit ==
    /\ q_variant \in {"events", "utils"}
    /\ q_pc = "process"
    /\ q_sel = <<>>
    /\ q_selectables = <<>>
    /\ q_reading = {} /\ q_writing = {}
    /\ q_found = 0
    /\ q_added = {}

QIdle ==
    /\ q_variant = "events"
    /\ q_pc = "process"
    /\ q_sel = <<>>
    /\ q_selectables = <<>>
    /\ q_reading = {} /\ q_writing = {}
    /\ q_found = 0
    /\ q_added = {}

\* listen(): an acceptor is made and registered.
QListen ==
    /\ q_pc = "process" /\ Len(q_sel) < MaxSel
    /\ \A i \in 1..Len(q_sel) : q_sel[i].kind # "acceptor"
    /\ q_sel' = Append(q_sel, NewAcceptor)
    /\ q_selectables' = Append(q_selectables, Len(q_sel) + 1)
    /\ UNCHANGED <<q_variant, q_pc, q_reading, q_writing, q_found, q_added,
                   exceptQ>>

\* events.process(): a handler of the application is called.
QProcess(act) ==
    /\ q_pc = "process"
    /\ LET st == QHandler(Q, act, FALSE)
       IN  q_sel' = st.sel /\ q_selectables' = st.selectables
    /\ UNCHANGED <<q_variant, q_pc, q_reading, q_writing, q_found, q_added,
                   exceptQ>>

\* events.process() returns and the sweep begins.
QProcessDone ==
    /\ q_pc = "process"
    /\ q_pc' = "sweep"
    /\ q_added' = {}
    /\ UNCHANGED <<q_variant, q_sel, q_selectables, q_reading, q_writing,
                   q_found, exceptQ>>

\* One pass: the lists are built over the registered selectables, the
\* closed ones are removed and told so.  When the sweep is over the reactor
\* returns if no selectable is left and otherwise calls select() with the
\* lists of this pass.
QSweep(act) ==
    /\ q_pc = "sweep"
    /\ LET gone == SelectSeq(q_selectables, LAMBDA s : sel_closed(q_sel[s]))
           st == QRemoveClosed(Q, gone, act)
       IN  /\ q_sel' = st.sel
           /\ q_selectables' = st.selectables
           /\ q_added' = st.added
           /\ q_found' = Len(gone)
           /\ q_reading' = {s \in QRegistered(Q) : sel_reading(q_sel[s])}
           /\ q_writing' = {s \in QRegistered(Q) : sel_writing(q_sel[s])}
           /\ q_pc' = IF ~sweep_over(q_variant, Len(gone)) THEN "sweep"
                      ELSE IF st.selectables = <<>> THEN "returned"
                      ELSE "select"
    /\ UNCHANGED <<q_variant, exceptQ>>

\* select() returns.
QSelect ==
    /\ q_pc = "select"
    /\ q_pc' = "io"
    /\ UNCHANGED <<q_variant, q_sel, q_selectables, q_reading, q_writing,
                   q_found, q_added, exceptQ>>

\* readable() or writable() of a socket adapter that was in the lists: the
\* output is written, or the stream ends and both halves are done.
QIo(s, out) ==
    /\ q_pc = "io"
    /\ s \in q_reading \cup q_writing /\ q_sel[s].kind = "socket"
    /\ q_sel' = [q_sel EXCEPT ![s] =
                    IF out = "eof"
                    THEN [@ EXCEPT !.read_done = TRUE, !.write_done = TRUE]
                    ELSE [@ EXCEPT !.pending = FALSE]]
    /\ UNCHANGED <<q_variant, q_pc, q_selectables, q_reading, q_writing,
                   q_found, q_added, exceptQ>>

\* readable() of the acceptor: a connection is accepted and its socket
\* adapter registered.
QAccept(s) ==
    /\ q_pc = "io"
    /\ s \in q_reading /\ q_sel[s].kind = "acceptor"
    /\ Len(q_sel) < MaxSel
    /\ q_sel' = Append(q_sel, NewSocket(FALSE))
    /\ q_selectables' = Append(q_selectables, Len(q_sel) + 1)
    /\ UNCHANGED <<q_variant, q_pc, q_reading, q_writing, q_found, q_added,
                   exceptQ>>

\* The I/O is over: the next iteration.
QIoDone ==
    /\ q_pc = "io"
    /\ q_pc' = "process"
    /\ q_reading' = {} /\ q_writing' = {}
    /\ UNCHANGED <<q_variant, q_sel, q_selectables, q_found, q_added,
                   exceptQ>>

NextQ ==
    \/ QListen
    \/ \E act \in QActs : QProcess(act)
    \/ QProcessDone
    \/ \E act \in QActs : QSweep(act)
    \/ QSelect
    \/ \E s \in 1..MaxSel, out \in {"eof", "sent"} : QIo(s, out)
    \/ \E s \in 1..MaxSel : QAccept(s)
    \/ QIoDone

\* When select() is entered the last pass found nothing closed, no
\* registered selectable reports closed(), the lists hold registered
\* selectables only, and the selectables that removed() handlers added
\* during the sweep are in the lists if they read or write.
QuiescedAtSelect ==
    q_pc = "select" =>
        /\ q_found = 0
        /\ \A s \in QRegistered(Q) : ~sel_closed(q_sel[s])
        /\ q_reading \cup q_writing \subseteq QRegistered(Q)
        /\ \A s \in q_added \cap QRegistered(Q) :
              /\ sel_reading(q_sel[s]) => s \in q_reading
              /\ sel_writing(q_sel[s]) => s \in q_writing

\* C29: the sweep is repeated until a pass finds no closed selectable, so
\* select() is entered with no registered selectable closed and with lists
\* of registered selectables only, those added by removed() handlers
\* during the sweep included.
C29_QuiescedAtSelect == QuiescedAtSelect

\* The same for do_work of proton_events.py, where it holds.
C29_EventsQuiescedAtSelect == q_variant = "events" => QuiescedAtSelect

(***************************************************************************)
(* Specifications                                                           *)
(***************************************************************************)

InitDlv == DlvInit /\ FlowIdle /\ HsIdle /\ BoIdle /\ LoopIdle /\ ScopeIdle /\ InjIdle /\ FdIdle /\ InIdle /\ BlIdle /\ UrlIdle /\ UrlsIdle /\ EvIdle /\ WrIdle /\ QIdle /\ IcIdle
SpecDlv == InitDlv /\ [][NextDlv]_vars

InitFlow == DlvIdle /\ FlowInit /\ HsIdle /\ BoIdle /\ LoopIdle /\ ScopeIdle /\ InjIdle /\ FdIdle /\ InIdle /\ BlIdle /\ UrlIdle /\ UrlsIdle /\ EvIdle /\ WrIdle /\ QIdle /\ IcIdle
SpecFlow == InitFlow /\ [][NextFlow]_vars

InitHs == DlvIdle /\ FlowIdle /\ HsInit /\ BoIdle /\ LoopIdle /\ ScopeIdle /\ InjIdle /\ FdIdle /\ InIdle /\ BlIdle /\ UrlIdle /\ UrlsIdle /\ EvIdle /\ WrIdle /\ QIdle /\ IcIdle
SpecHs == InitHs /\ [][NextHs]_vars

InitBackoff == DlvIdle /\ FlowIdle /\ HsIdle /\ BoInit /\ LoopIdle /\ ScopeIdle /\ InjIdle /\ FdIdle /\ InIdle /\ BlIdle /\ UrlIdle /\ UrlsIdle /\ EvIdle /\ WrIdle /\ QIdle /\ IcIdle
SpecBackoff == InitBackoff /\ [][NextBackoff]_vars

InitLoop == DlvIdle /\ FlowIdle /\ HsIdle /\ BoIdle /\ LoopInit /\ ScopeIdle /\ InjIdle /\ FdIdle /\ InIdle /\ BlIdle /\ UrlIdle /\ UrlsIdle /\ EvIdle /\ WrIdle /\ QIdle /\ IcIdle
SpecLoop == InitLoop /\ [][NextLoop]_vars
SpecTimers == InitLoop /\ [][NextTimers]_vars
SpecUtils == InitLoop /\ [][NextUtils]_vars
SpecPair == InitLoop /\ [][NextPair]_vars

InitScope == DlvIdle /\ FlowIdle /\ HsIdle /\ BoIdle /\ LoopIdle /\ ScopeInit /\ InjIdle /\ FdIdle /\ InIdle /\ BlIdle /\ UrlIdle /\ UrlsIdle /\ EvIdle /\ WrIdle /\ QIdle /\ IcIdle
SpecScope == InitScope /\ [][NextScope]_vars

InitInj == DlvIdle /\ FlowIdle /\ HsIdle /\ BoIdle /\ LoopIdle /\ ScopeIdle /\ InjInit /\ FdIdle /\ InIdle /\ BlIdle /\ UrlIdle /\ UrlsIdle /\ EvIdle /\ WrIdle /\ QIdle /\ IcIdle
SpecInj == InitInj /\ [][NextInj]_vars

InitFd == DlvIdle /\ FlowIdle /\ HsIdle /\ BoIdle /\ LoopIdle /\ ScopeIdle /\ InjIdle /\ FdInit /\ InIdle /\ BlIdle /\ UrlIdle /\ UrlsIdle /\ EvIdle /\ WrIdle /\ QIdle /\ IcIdle
SpecFd == InitFd /\ [][NextFd]_vars

InitIn == DlvIdle /\ FlowIdle /\ HsIdle /\ BoIdle /\ LoopIdle /\ ScopeIdle /\ InjIdle /\ FdIdle /\ InInit /\ BlIdle /\ UrlIdle /\ UrlsIdle /\ EvIdle /\ WrIdle /\ QIdle /\ IcIdle
SpecIn == InitIn /\ [][NextIn]_vars

InitBlock == DlvIdle /\ FlowIdle /\ HsIdle /\ BoIdle /\ LoopIdle /\ ScopeIdle /\ InjIdle /\ FdIdle /\ InIdle /\ BlInit /\ UrlIdle /\ UrlsIdle /\ EvIdle /\ WrIdle /\ QIdle /\ IcIdle
SpecBlock == InitBlock /\ [][NextBlock]_vars

InitUrl == DlvIdle /\ FlowIdle /\ HsIdle /\ BoIdle /\ LoopIdle /\ ScopeIdle /\ InjIdle /\ FdIdle /\ InIdle /\ BlIdle /\ UrlInit /\ UrlsIdle /\ EvIdle /\ WrIdle /\ QIdle /\ IcIdle
SpecUrl == InitUrl /\ [][NextUrl]_vars

InitUrls == DlvIdle /\ FlowIdle /\ HsIdle /\ BoIdle /\ LoopIdle /\ ScopeIdle /\ InjIdle /\ FdIdle /\ InIdle /\ BlIdle /\ UrlIdle /\ UrlsInit /\ EvIdle /\ WrIdle /\ QIdle /\ IcIdle
SpecUrls == InitUrls /\ [][NextUrls]_vars

InitEv == DlvIdle /\ FlowIdle /\ HsIdle /\ BoIdle /\ LoopIdle /\ ScopeIdle /\ InjIdle /\ FdIdle /\ InIdle /\ BlIdle /\ UrlIdle /\ UrlsIdle /\ EvInit /\ WrIdle /\ QIdle /\ IcIdle
SpecEv == InitEv /\ [][NextEv]_vars

InitWr == DlvIdle /\ FlowIdle /\ HsIdle /\ BoIdle /\ LoopIdle /\ ScopeIdle /\ InjIdle /\ FdIdle /\ InIdle /\ BlIdle /\ UrlIdle /\ UrlsIdle /\ EvIdle /\ WrInit /\ QIdle /\ IcIdle
SpecWr == InitWr /\ [][NextWr]_vars

InitQ == DlvIdle /\ FlowIdle /\ HsIdle /\ BoIdle /\ LoopIdle /\ ScopeIdle /\ InjIdle /\ FdIdle /\ InIdle /\ BlIdle /\ UrlIdle /\ UrlsIdle /\ EvIdle /\ WrIdle /\ QInit /\ IcIdle
SpecQ == InitQ /\ [][NextQ]_vars

InitInjClose == DlvIdle /\ FlowIdle /\ HsIdle /\ BoIdle /\ LoopIdle /\ ScopeIdle /\ InjInit /\ FdIdle /\ InIdle /\ BlIdle /\ UrlIdle /\ UrlsIdle /\ EvIdle /\ WrIdle /\ QIdle /\ IcInit
SpecInjClose == InitInjClose /\ [][NextInjClose]_vars

====
